---------------------------- MODULE Spec2Model ----------------------------
(***************************************************************************)
(* A model of mcp-toolgen: the operation selector of the command line      *)
(* (validateCRUDOperations, parseCRUDOperations, GetResourceOperations),   *)
(* the CRD analyzer (ValidateCRD, AnalyzeCRD), the schema analyzer         *)
(* (AnalyzeSchema and its helpers, GetStructFields) and the schema         *)
(* renderer of the generator (convertSchemaToGoCode).                      *)
(*                                                                         *)
(* Go strings are sequences of one-character strings, so that the code's   *)
(* string operations (suffix tests, splitting, case mapping, comparison,   *)
(* concatenation) are computed and not assumed.  A Go map is a function;   *)
(* ranging over a map visits its keys in an order the runtime chooses, so  *)
(* every operation that ranges over a map yields the set of the results    *)
(* of all visiting orders and the action takes any one of them.            *)
(***************************************************************************)
EXTENDS Integers, Sequences, FiniteSets, TLC

VARIABLES
    \* --- the operation selector (pkg/cmd, pkg/analyzer/types.go) ---
    crudOperations,   \* the --crud flag: a token string
    crudPc,           \* position of the run: "start", "flags", "validated", "rejected", "configured"
    crudErr,          \* the result of validateCRUDOperations
    selectedOps,      \* GenerationConfig.SelectedOperations
    resourceOps,      \* the last result of GetResourceOperations
    opsQueried,       \* whether GetResourceOperations has been called
    \* --- the CRD analyzer (pkg/analyzer/crd.go) ---
    crd,              \* the CustomResourceDefinition handed to AnalyzeCRD
    crdPc,            \* "none", "loaded", "analyzed"
    crdInfo,          \* the result of AnalyzeCRD: [err, Version, Versions, Schema, ListKind]
    toolset,          \* the result of NewToolsetInfo: [err, Schema, MainType, ...], or <<>>
    \* --- the schema analyzer (pkg/analyzer/schema.go) and the renderer ---
    heap,             \* the GoTypeInfo values allocated so far; a *GoTypeInfo is an index
    typeCache,        \* SchemaAnalyzer.typeCache: cache key -> *GoTypeInfo
    calls,            \* the AnalyzeSchema calls made: [schema, typeName, fieldName, res, err]
    structFields,     \* the last GetStructFields call: [node, fields], or <<>>
    rendered,         \* the last convertSchemaToGoCode call: [schema, text], or <<>>
    \* --- AnalyzeSchema call by call, on schemas linked by pointers ---
    walkGraph,        \* the schemas in memory: address -> [type, itemsSet, items]
    walkStack,        \* the call stack: frames [fn, schema, typeName], the last is running
    walkCache,        \* the keys of typeCache
    walkPc,           \* "idle", "running", "returned", "overflow"
    \* --- the name helpers of the generator (pkg/generator/helpers.go) ---
    word,             \* the argument of pluralize
    plural,           \* the result of pluralize
    singular,         \* the result of singularize on that plural
    namePc,           \* "idle", "pluralized", "singularized"
    \* --- a run of the generate command (cmd/generate.go) ---
    flags,            \* the command line flags
    files,            \* the CRD files on disk, in the order findCRDFiles lists them
    runPc,            \* "start", "args", "single", "dir", "loop", "done", "crashed"
    runIdx,           \* the place in crdFiles of the file the loop is at
    runLog,           \* what the run has done: a sequence of [step, file, err]
    runErr,           \* what runGenerate returned
    \* --- the case conversions and name generators (pkg/generator/helpers.go) ---
    ident,            \* the argument of the conversions
    conv,             \* [camel, pascal, snake, kebab, goName] of ident, or <<>>
    reconv,           \* each conversion applied to its own result, or <<>>
    genNames,         \* the last generateMethodName / generateToolName call, or <<>>
    \* --- generateToolset on a file system (cmd/generate.go, pkg/generator) ---
    genFlags,         \* --dry-run, --overwrite, --register, --modules-file, --templates
    genMode,          \* "single" or "dir"
    toolsets,         \* the ToolsetInfo values the run hands to generateToolset
    disk,             \* the file system: path -> content
    disk0,            \* the file system before the run
    genIdx,           \* the place of the next toolset
    genLog,           \* what each generateToolset call returned
    genPc,            \* "start", "running", "done"
    \* --- RegisterInModulesFile on one modules.go ---
    modulesGo,        \* modules.go: [exists, lines]
    regLog            \* the calls made: [path, err, before]

crudVars == <<crudOperations, crudPc, crudErr, selectedOps, resourceOps, opsQueried>>
crdVars == <<crd, crdPc, crdInfo, toolset>>
schemaVars == <<heap, typeCache, calls, structFields, rendered>>
walkVars == <<walkGraph, walkStack, walkCache, walkPc>>
nameVars == <<word, plural, singular, namePc>>
runVars == <<flags, files, runPc, runIdx, runLog, runErr>>
caseVars == <<ident, conv, reconv, genNames>>
genVars == <<genFlags, genMode, toolsets, disk, disk0, genIdx, genLog, genPc>>
regVars == <<modulesGo, regLog>>
vars == <<crudVars, crdVars, schemaVars, walkVars, nameVars, runVars,
          caseVars, genVars, regVars>>

---------------------------------------------------------------------------
(* Sequences and sets *)

Range(s) == {s[i] : i \in DOMAIN s}

\* All sequences over S of length at most n.
SeqsUpTo(S, n) == UNION {[1..k -> S] : k \in 0..n}

RECURSIVE Flatten(_)
Flatten(ss) == IF ss = <<>> THEN <<>> ELSE Head(ss) \o Flatten(Tail(ss))

---------------------------------------------------------------------------
(* The operation selector *)

\* Longest --crud token string the model tries.
MaxCrudLen == 4

NoErr == [kind |-> "ok", char |-> ""]

\* validChars of validateCRUDOperations
validChars == {"c", "r", "u", "d"}

\* The loop of validateCRUDOperations from position i on, seen being the
\* characters met so far: the first offending character decides the error.
RECURSIVE ValidateScan(_, _, _)
ValidateScan(crud, i, seen) ==
    IF i > Len(crud) THEN NoErr
    ELSE IF crud[i] \notin validChars THEN [kind |-> "invalid", char |-> crud[i]]
    ELSE IF crud[i] \in seen THEN [kind |-> "duplicate", char |-> crud[i]]
    ELSE ValidateScan(crud, i + 1, seen \cup {crud[i]})

\* A scan that never records what it has seen (it detects no duplicate).
ValidateLoopForgetful(crud) ==
    IF \E i \in DOMAIN crud : crud[i] \notin validChars
    THEN [kind |-> "invalid",
          char |-> crud[CHOOSE i \in DOMAIN crud :
                          /\ crud[i] \notin validChars
                          /\ \A j \in 1..(i - 1) : crud[j] \in validChars]]
    ELSE NoErr

\* A scan that looks for a duplicate in the whole string before it looks
\* for an invalid character.
ValidateLoopDuplicateFirst(crud) ==
    IF \E i, j \in DOMAIN crud : i < j /\ crud[i] = crud[j] /\ crud[i] \in validChars
    THEN [kind |-> "duplicate",
          char |-> crud[CHOOSE j \in DOMAIN crud :
                          /\ \E i \in 1..(j - 1) : crud[i] = crud[j]
                          /\ crud[j] \in validChars]]
    ELSE ValidateScan(crud, 1, {})

ValidateLoop(crud) == ValidateScan(crud, 1, {})

validateCRUDOperations(crud) ==
    IF crud = <<>> THEN [kind |-> "empty", char |-> ""]
    ELSE ValidateLoop(crud)

\* r appends list before get.
CrudExpansionSwapped(char) ==
    CASE char = "c" -> <<"create">>
      [] char = "r" -> <<"list", "get">>
      [] char = "u" -> <<"update">>
      [] char = "d" -> <<"delete">>
      [] OTHER -> <<>>

\* The switch of parseCRUDOperations: what one character appends.
CrudExpansion(char) ==
    CASE char = "c" -> <<"create">>
      [] char = "r" -> <<"get", "list">>
      [] char = "u" -> <<"update">>
      [] char = "d" -> <<"delete">>
      [] OTHER -> <<>>

\* The second loop of parseCRUDOperations: keep the first occurrence of each name.
RECURSIVE RemoveDuplicates(_, _)
RemoveDuplicates(ops, seen) ==
    IF ops = <<>> THEN <<>>
    ELSE IF Head(ops) \in seen THEN RemoveDuplicates(Tail(ops), seen)
    ELSE <<Head(ops)>> \o RemoveDuplicates(Tail(ops), seen \cup {Head(ops)})

parseCRUDOperations(crud) ==
    RemoveDuplicates(Flatten([i \in DOMAIN crud |-> CrudExpansion(crud[i])]), {})

AllOperations == <<"create", "get", "list", "update", "delete">>

\* Returns the selection as it is, also when it is empty.
GetResourceOperationsNoDefault(selected) == selected

GetResourceOperations(selected) ==
    IF Len(selected) > 0 THEN selected ELSE AllOperations

\* The user passes --crud (the flag is a plain string: any text).
SetCrudFlag ==
    /\ crudPc = "start"
    /\ \E s \in SeqsUpTo({"c", "r", "u", "d", "x", "C"}, MaxCrudLen) : crudOperations' = s
    /\ crudPc' = "flags"
    /\ UNCHANGED <<crudErr, selectedOps, resourceOps, opsQueried>>
    /\ UNCHANGED <<crdVars, schemaVars, walkVars, nameVars, runVars, caseVars, genVars, regVars>>

\* validateFlags: the --crud flag is validated before any work.
ValidateFlags ==
    /\ crudPc \in {"start", "flags"}
    /\ crudErr' = validateCRUDOperations(crudOperations)
    /\ crudPc' = IF crudErr'.kind = "ok" THEN "validated" ELSE "rejected"
    /\ UNCHANGED <<crudOperations, selectedOps, resourceOps, opsQueried>>
    /\ UNCHANGED <<crdVars, schemaVars, walkVars, nameVars, runVars, caseVars, genVars, regVars>>

\* generateFromSingleCRD / generateFromDirectory: the configuration takes the
\* parsed selection.
ConfigureSelection ==
    /\ crudPc = "validated"
    /\ selectedOps' = parseCRUDOperations(crudOperations)
    /\ crudPc' = "configured"
    /\ UNCHANGED <<crudOperations, crudErr, resourceOps, opsQueried>>
    /\ UNCHANGED <<crdVars, schemaVars, walkVars, nameVars, runVars, caseVars, genVars, regVars>>

\* createTemplateData (or any caller of the library) asks the toolset for its
\* operations; a configuration nobody has set holds no selection.
QueryOperations ==
    /\ crudPc \in {"start", "flags", "rejected", "configured"}
    /\ ~opsQueried
    /\ resourceOps' = GetResourceOperations(selectedOps)
    /\ opsQueried' = TRUE
    /\ UNCHANGED <<crudOperations, crudPc, crudErr, selectedOps>>
    /\ UNCHANGED <<crdVars, schemaVars, walkVars, nameVars, runVars, caseVars, genVars, regVars>>

NextCrud == SetCrudFlag \/ ValidateFlags \/ ConfigureSelection \/ QueryOperations

---------------------------------------------------------------------------
(* Claims about the operation selector *)

Validated == crudPc \in {"validated", "rejected", "configured"}

HasInvalidChar(crud) == \E i \in DOMAIN crud : crud[i] \notin validChars

HasRepeatedChar(crud) == \E i, j \in DOMAIN crud : i < j /\ crud[i] = crud[j]

Occurrences(crud, ch) == Cardinality({i \in DOMAIN crud : crud[i] = ch})

\* Position of the first character outside {c,r,u,d}.
FirstInvalid(crud) ==
    CHOOSE i \in DOMAIN crud :
        /\ crud[i] \notin validChars
        /\ \A j \in 1..(i - 1) : crud[j] \in validChars

\* Number of operation names the characters before position i stand for.
OpsBefore(crud, i) ==
    (i - 1) + Cardinality({j \in 1..(i - 1) : crud[j] = "r"})

\* C5: for every accepted token string, parseCRUDOperations returns the
\* operations in input-character order (c: create; r: get then list;
\* u: update; d: delete), each name once.
C5_ParseOrder ==
    crudPc = "configured" =>
        /\ Len(selectedOps) = OpsBefore(crudOperations, Len(crudOperations) + 1)
        /\ \A i \in DOMAIN crudOperations :
             LET at == OpsBefore(crudOperations, i) + 1 IN
             /\ crudOperations[i] = "c" => selectedOps[at] = "create"
             /\ crudOperations[i] = "r" =>
                    selectedOps[at] = "get" /\ selectedOps[at + 1] = "list"
             /\ crudOperations[i] = "u" => selectedOps[at] = "update"
             /\ crudOperations[i] = "d" => selectedOps[at] = "delete"
        /\ \A i, j \in DOMAIN selectedOps : i # j => selectedOps[i] # selectedOps[j]

\* "cr" has been parsed into create, get, list.
C5_Witness ==
    /\ crudPc = "configured"
    /\ crudOperations = <<"c", "r">>
    /\ selectedOps = <<"create", "get", "list">>

\* C6 as stated: every token string holding a character outside {c,r,u,d}
\* fails with the invalid-character error.
C6_AlwaysInvalidError ==
    (Validated /\ HasInvalidChar(crudOperations)) => crudErr.kind = "invalid"

\* C6 amended: such a string always fails; the error is the invalid-character
\* error naming the first invalid character unless a valid character is
\* repeated before it, and then it is the duplicate-character error.
C6_InvalidUnlessDuplicateBefore ==
    (Validated /\ HasInvalidChar(crudOperations)) =>
        LET k == FirstInvalid(crudOperations)
            before == SubSeq(crudOperations, 1, k - 1)
        IN /\ crudPc = "rejected"
           /\ crudErr.kind \in {"invalid", "duplicate"}
           /\ crudErr.kind = "invalid" <=> ~HasRepeatedChar(before)
           /\ crudErr.kind = "invalid" => crudErr.char = crudOperations[k]
           /\ crudErr.kind = "duplicate" => Occurrences(before, crudErr.char) > 1

\* "cxc" has been rejected for its x.
C6_Witness ==
    /\ crudPc = "rejected"
    /\ crudOperations = <<"c", "x", "c">>
    /\ crudErr = [kind |-> "invalid", char |-> "x"]

\* C7: a token string made only of c, r, u, d fails with the
\* duplicate-character error exactly when some character occurs more than
\* once, and the error names a character that does; one r is accepted.
C7_DuplicateIffRepeated ==
    (Validated /\ ~HasInvalidChar(crudOperations)) =>
        /\ crudErr.kind = "duplicate" <=> HasRepeatedChar(crudOperations)
        /\ crudErr.kind = "duplicate" => Occurrences(crudOperations, crudErr.char) > 1
        /\ (crudOperations # <<>> /\ ~HasRepeatedChar(crudOperations)) => crudErr.kind = "ok"

\* "rcr" has been rejected for its second r.
C7_Witness ==
    /\ crudPc = "rejected"
    /\ crudOperations = <<"r", "c", "r">>
    /\ crudErr = [kind |-> "duplicate", char |-> "r"]

\* C8: the empty token string is rejected as empty, and a configuration
\* with no selected operations yields create, get, list, update, delete.
C8_EmptyVersusUnset ==
    /\ (Validated /\ crudOperations = <<>>) =>
           crudPc = "rejected" /\ crudErr.kind = "empty"
    /\ (opsQueried /\ selectedOps = <<>>) =>
           resourceOps = <<"create", "get", "list", "update", "delete">>

\* The empty string has been rejected and the unset selection queried.
C8_Witness ==
    /\ crudPc = "rejected"
    /\ crudOperations = <<>>
    /\ crudErr.kind = "empty"
    /\ opsQueried
    /\ selectedOps = <<>>
    /\ Len(resourceOps) = 5

---------------------------------------------------------------------------
(* The CRD analyzer *)

\* Most versions a CRD of the model declares.
MaxVersions == 3

\* The name of the version at each place of spec.versions.
VersionNames == <<"v1alpha1", "v1", "v1beta1", "v2", "v2beta1", "v3">>

Str_List == <<"L", "i", "s", "t">>

\* A version: its name, its storage flag and its schema, 0 when
\* Schema or Schema.OpenAPIV3Schema is nil and else the identity of the schema.
VersionsAt(i) ==
    [Name : {VersionNames[i]}, Storage : BOOLEAN, Schema : {0, i}]

VersionLists ==
    UNION {{vs \in [1..n -> UNION {VersionsAt(i) : i \in 1..n}] :
                \A i \in 1..n : vs[i] \in VersionsAt(i)} : n \in 0..MaxVersions}

CRDs ==
    [Group : {"", "example.com"}, Kind : {<<>>, <<"W">>}, Plural : {"", "widgets"},
     ListKind : {<<>>, <<"W", "s">>}, Versions : VersionLists]

ValidateCRD(c) ==
    IF c.Group = "" THEN "CRD group is required"
    ELSE IF c.Kind = <<>> THEN "CRD kind is required"
    ELSE IF c.Plural = "" THEN "CRD plural name is required"
    ELSE IF Len(c.Versions) = 0 THEN "CRD must have at least one version"
    ELSE IF ~\E i \in DOMAIN c.Versions : c.Versions[i].Schema # 0
         THEN "CRD must have at least one version with an OpenAPI v3 schema"
    ELSE ""

\* The loop over spec.versions from place i on: cur is storageVersion
\* (0 for nil).
RECURSIVE StorageScan(_, _, _)
StorageScan(versions, i, cur) ==
    IF i > Len(versions) THEN cur
    ELSE StorageScan(versions, i + 1,
                     IF versions[i].Storage \/ cur = 0 THEN i ELSE cur)

\* Takes the first version whatever the storage flags.
StorageVersionFirst(versions) == IF Len(versions) > 0 THEN 1 ELSE 0

StorageVersion(versions) == StorageScan(versions, 1, 0)

\* Takes the schema of the first version that has one when the storage
\* version has none.
AnalyzeCRDAnySchema(c) ==
    LET err == ValidateCRD(c)
        sv == StorageVersion(c.Versions)
        withSchema == {i \in DOMAIN c.Versions : c.Versions[i].Schema # 0}
        first == CHOOSE i \in withSchema : \A j \in withSchema : i <= j
    IN IF err # "" THEN [err |-> err, Version |-> "", Versions |-> <<>>,
                         Schema |-> 0, ListKind |-> <<>>]
       ELSE [err |-> "",
             Version |-> IF sv = 0 THEN "" ELSE c.Versions[sv].Name,
             Versions |-> [i \in DOMAIN c.Versions |-> c.Versions[i].Name],
             Schema |-> IF sv = 0 THEN 0
                        ELSE IF c.Versions[sv].Schema # 0 THEN c.Versions[sv].Schema
                        ELSE c.Versions[first].Schema,
             ListKind |-> IF c.ListKind = <<>> THEN c.Kind \o Str_List ELSE c.ListKind]

AnalyzeCRD(c) ==
    LET err == ValidateCRD(c)
        sv == StorageVersion(c.Versions)
    IN IF err # "" THEN [err |-> err, Version |-> "", Versions |-> <<>>,
                         Schema |-> 0, ListKind |-> <<>>]
       ELSE [err |-> "",
             Version |-> IF sv = 0 THEN "" ELSE c.Versions[sv].Name,
             Versions |-> [i \in DOMAIN c.Versions |-> c.Versions[i].Name],
             Schema |-> IF sv = 0 THEN 0 ELSE c.Versions[sv].Schema,
             ListKind |-> IF c.ListKind = <<>> THEN c.Kind \o Str_List ELSE c.ListKind]

\* ParseCRDFromYAML has decoded a CustomResourceDefinition.
LoadCRD ==
    /\ crdPc = "none"
    /\ \E c \in CRDs : crd' = c
    /\ crdPc' = "loaded"
    /\ UNCHANGED <<crdInfo, toolset>>
    /\ UNCHANGED <<crudVars, schemaVars, walkVars, nameVars, runVars, caseVars, genVars, regVars>>

AnalyzeCRDCall ==
    /\ crdPc = "loaded"
    /\ crdInfo' = AnalyzeCRD(crd)
    /\ crdPc' = "analyzed"
    /\ UNCHANGED <<crd, toolset>>
    /\ UNCHANGED <<crudVars, schemaVars, walkVars, nameVars, runVars, caseVars, genVars, regVars>>

---------------------------------------------------------------------------
(* Claims about the CRD analyzer *)

Flagged(versions) == {i \in DOMAIN versions : versions[i].Storage}

\* C4: AnalyzeCRD selects the version flagged storage:true wherever it
\* stands, or the first version when none is flagged; CRDInfo.Version is its
\* name and CRDInfo.Schema its schema.
C4_StorageVersion ==
    (crdPc = "analyzed" /\ crdInfo.err = "" /\ Cardinality(Flagged(crd.Versions)) <= 1) =>
        LET sel == IF Flagged(crd.Versions) = {} THEN 1
                   ELSE CHOOSE i \in Flagged(crd.Versions) : TRUE
        IN /\ crdInfo.Version = crd.Versions[sel].Name
           /\ crdInfo.Schema = crd.Versions[sel].Schema
           /\ \A i \in DOMAIN crd.Versions :
                  i # sel => crdInfo.Version # crd.Versions[i].Name

\* The storage version is the second of two, and it has been selected.
C4_Witness ==
    /\ crdPc = "analyzed"
    /\ crdInfo.err = ""
    /\ Len(crd.Versions) = 2
    /\ ~crd.Versions[1].Storage /\ crd.Versions[1].Schema # 0
    /\ crd.Versions[2].Storage /\ crd.Versions[2].Schema # 0
    /\ crdInfo.Version = "v1"
    /\ crdInfo.Schema = 2

---------------------------------------------------------------------------
(* Strings *)

Uppers == <<"A", "B", "C", "D", "E", "F", "G", "H", "I", "J", "K", "L", "M",
            "N", "O", "P", "Q", "R", "S", "T", "U", "V", "W", "X", "Y", "Z">>
Lowers == <<"a", "b", "c", "d", "e", "f", "g", "h", "i", "j", "k", "l", "m",
            "n", "o", "p", "q", "r", "s", "t", "u", "v", "w", "x", "y", "z">>

IsUpper(c) == \E i \in DOMAIN Uppers : Uppers[i] = c
IsLower(c) == \E i \in DOMAIN Lowers : Lowers[i] = c

\* The byte of a character (ASCII), for the characters names are made of.
CharCode(c) ==
    CASE IsUpper(c) -> 64 + (CHOOSE i \in DOMAIN Uppers : Uppers[i] = c)
      [] IsLower(c) -> 96 + (CHOOSE i \in DOMAIN Lowers : Lowers[i] = c)
      [] c = "-" -> 45
      [] c = "." -> 46
      [] c = "[" -> 91
      [] c = "]" -> 93
      [] c = "_" -> 95
      [] c = "{" -> 123
      [] c = "}" -> 125

ToLowerChar(c) ==
    IF IsUpper(c) THEN Lowers[CHOOSE i \in DOMAIN Uppers : Uppers[i] = c] ELSE c

ToUpperChar(c) ==
    IF IsLower(c) THEN Uppers[CHOOSE i \in DOMAIN Lowers : Lowers[i] = c] ELSE c

\* strings.ToLower
ToLower(str) == [i \in DOMAIN str |-> ToLowerChar(str[i])]

\* Go's < on strings: byte-wise lexicographic.
RECURSIVE StrLess(_, _)
StrLess(a, b) ==
    IF b = <<>> THEN FALSE
    ELSE IF a = <<>> THEN TRUE
    ELSE IF Head(a) = Head(b) THEN StrLess(Tail(a), Tail(b))
    ELSE CharCode(Head(a)) < CharCode(Head(b))

\* strings.HasSuffix
HasSuffix(str, suf) ==
    Len(str) >= Len(suf) /\ SubSeq(str, Len(str) - Len(suf) + 1, Len(str)) = suf

\* strings.FieldsFunc(str, isSep): the maximal runs of non-separators; cur is
\* the run being read.
RECURSIVE FieldsFrom(_, _, _)
FieldsFrom(str, seps, cur) ==
    IF str = <<>> THEN (IF cur = <<>> THEN <<>> ELSE <<cur>>)
    ELSE IF Head(str) \in seps
         THEN (IF cur = <<>> THEN <<>> ELSE <<cur>>) \o FieldsFrom(Tail(str), seps, <<>>)
         ELSE FieldsFrom(Tail(str), seps, Append(cur, Head(str)))

FieldsFunc(str, seps) == FieldsFrom(str, seps, <<>>)

\* The set S of strings as a sequence in ascending order.
RECURSIVE SortedSeq(_)
SortedSeq(S) ==
    IF S = {} THEN <<>>
    ELSE LET m == CHOOSE x \in S : \A y \in S \ {x} : StrLess(x, y)
         IN <<m>> \o SortedSeq(S \ {m})

\* All the orders in which the elements of S can be visited.
RECURSIVE Orders(_)
Orders(S) ==
    IF S = {} THEN {<<>>}
    ELSE UNION {{<<x>> \o o : o \in Orders(S \ {x})} : x \in S}

EmptyMap == [x \in {} |-> 0]

Str_Item == <<"I", "t", "e", "m">>
Str_interface == <<"i", "n", "t", "e", "r", "f", "a", "c", "e", "{", "}">>
Str_slice == <<"[", "]">>
Str_json == <<"j", "s", "o", "n", ":", "\"">>
Str_omitempty == <<",", "o", "m", "i", "t", "e", "m", "p", "t", "y">>

---------------------------------------------------------------------------
(* Schemas: the JSONSchemaProps the analyzer and the renderer are given *)

\* Deepest nesting of a property's schema: 0 is a primitive, 1 an array of
\* primitives or an object of primitives, and so on.
MaxDepth == 1

\* A JSONSchemaProps: Type, Format, Properties (a map by value), Required (a
\* list), Items (itemsSet: Items # nil; items: Items.Schema, <<>> for nil).
\* The schemas of the model carry no description, enum, bounds, pattern or
\* additionalProperties.
SchemaOf(type, props, required, items) ==
    [type |-> type, format |-> "", props |-> props, required |-> required,
     itemsSet |-> items # <<>>, items |-> items]

LeafSchemas == {SchemaOf(t, EmptyMap, <<>>, <<>>) : t \in {"string", "integer"}}

\* The objects with properties K of schemas in sub, requiring any of them.
ObjectSchemas(K, sub) ==
    {SchemaOf("object", pm, SortedSeq(R), <<>>) : pm \in [K -> sub], R \in SUBSET K}

\* The schemas nested at most d deep: primitives, arrays of an item schema,
\* objects with inner properties.
RECURSIVE NestedSchemas(_)
NestedSchemas(d) ==
    IF d = 0 THEN LeafSchemas
    ELSE LET sub == NestedSchemas(d - 1) IN
         LeafSchemas
         \cup {SchemaOf("array", EmptyMap, <<>>, <<it>>) : it \in sub}
         \cup UNION {ObjectSchemas(K, sub) : K \in (SUBSET {<<"x">>}) \ {{}}}

\* The schemas of a resource: an object of one or two properties, each a
\* nested schema.
ResourceSchemas ==
    UNION {ObjectSchemas(K, NestedSchemas(MaxDepth)) :
              K \in {S \in SUBSET {<<"f", "o", "o">>, <<"f", "o", "o", "s">>,
                                   <<"F", "o", "o">>} : Cardinality(S) \in {1, 2}}}

---------------------------------------------------------------------------
(* The schema analyzer *)

\* cases.Title: the first letter of each word in upper case, the other
\* letters in lower case; a word begins after any character that is no letter.
toTitle(str) ==
    [i \in DOMAIN str |->
        IF i = 1 \/ ~(IsUpper(str[i - 1]) \/ IsLower(str[i - 1]))
        THEN ToUpperChar(str[i]) ELSE ToLowerChar(str[i])]

\* toGoName: split at '-', '_' and '.', lower-case each part and title-case
\* it, join.
TitlePart(part) == toTitle(ToLower(part))

toGoName(name) ==
    LET parts == FieldsFunc(name, {"-", "_", "."})
    IN Flatten([i \in DOMAIN parts |-> TitlePart(parts[i])])

generatePropertyTypeName(parentType, propName) == parentType \o toGoName(propName)

generateItemTypeName(arrayType) ==
    IF HasSuffix(arrayType, <<"s">>)
    THEN SubSeq(arrayType, 1, Len(arrayType) - 1) \o Str_Item
    ELSE arrayType \o Str_Item

\* What getGoTypeFromSchema yields when it reads Type through a nil pointer.
Panic == <<"panic: nil pointer dereference">>

RECURSIVE getGoTypeFromSchema(_, _)
getGoTypeFromSchema(schema, typeName) ==
    LET itemType == getGoTypeFromSchema(schema.items[1], generateItemTypeName(typeName))
        sliceOfItem == IF itemType = Panic THEN Panic ELSE Str_slice \o itemType
    IN CASE schema.type = "string" -> <<"s", "t", "r", "i", "n", "g">>
         [] schema.type = "integer" ->
                IF schema.format = "int64" THEN <<"i", "n", "t", "6", "4">>
                ELSE <<"i", "n", "t", "3", "2">>
         [] schema.type = "number" ->
                IF schema.format = "double" THEN <<"f", "l", "o", "a", "t", "6", "4">>
                ELSE <<"f", "l", "o", "a", "t", "3", "2">>
         [] schema.type = "boolean" -> <<"b", "o", "o", "l">>
         [] schema.type = "array" ->
                IF schema.itemsSet /\ schema.items # <<>> THEN sliceOfItem
                ELSE Str_slice \o Str_interface
         [] schema.type = "object" ->
                IF DOMAIN schema.props # {} THEN typeName
                ELSE <<"m", "a", "p", "[", "s", "t", "r", "i", "n", "g", "]">>
                     \o Str_interface
         [] schema.type = "" ->
                IF DOMAIN schema.props # {} THEN typeName
                ELSE IF schema.itemsSet
                     THEN (IF schema.items = <<>> THEN Panic ELSE sliceOfItem)
                     ELSE Str_interface
         [] OTHER -> Str_interface

\* isRequired knows nothing of the parent's required list.
isRequired(schema) == FALSE

generateJSONTag(fieldName, schema) ==
    IF ~isRequired(schema)
    THEN Str_json \o fieldName \o Str_omitempty \o <<"\"">>
    ELSE Str_json \o fieldName \o <<"\"">>

\* fmt.Sprintf("%s_%s", typeName, fieldName)
CacheKey(typeName, fieldName) == typeName \o <<"_">> \o fieldName

\* propInfo.Required = ...: an assignment through the pointer.
SetRequired(st, id, required) ==
    [st EXCEPT !.heap[id].Required = required]

Failed(st, err) == [st |-> st, res |-> 0, err |-> err]

\* AnalyzeSchema on the analyzer state st (heap and cache): the set of its
\* outcomes [st, res, err], one for each order in which the property maps
\* can be visited.  ptr is a *JSONSchemaProps: <<>> for nil.
RECURSIVE AnalyzeSchema(_, _, _, _), AnalyzeProperties(_, _, _, _, _)
AnalyzeSchema(st, ptr, typeName, fieldName) ==
    IF ptr = <<>> THEN {Failed(st, "schema is nil")}
    ELSE
    LET schema == ptr[1]
        cacheKey == CacheKey(typeName, fieldName)
    IN
    IF cacheKey \in DOMAIN st.cache
    THEN {[st |-> st, res |-> st.cache[cacheKey], err |-> ""]}
    ELSE
    LET goType == getGoTypeFromSchema(schema, typeName)
        withProps ==
            IF schema.type = "object" /\ DOMAIN schema.props # {}
            THEN AnalyzeProperties(st, schema, typeName, DOMAIN schema.props, EmptyMap)
            ELSE {[st |-> st, props |-> EmptyMap, err |-> ""]}
        withItems(o) ==
            IF o.err # "" THEN {[st |-> o.st, props |-> o.props, items |-> 0, err |-> o.err]}
            ELSE IF schema.type = "array" /\ schema.itemsSet /\ schema.items # <<>>
            THEN {[st |-> i.st, props |-> o.props, items |-> i.res, err |-> i.err] :
                     i \in AnalyzeSchema(o.st, schema.items,
                                         generateItemTypeName(typeName), <<>>)}
            ELSE {[st |-> o.st, props |-> o.props, items |-> 0, err |-> ""]}
        finish(o) ==
            IF o.err # "" THEN Failed(o.st, o.err)
            ELSE LET id == Len(o.st.heap) + 1
                     typeInfo == [Name |-> typeName,
                                  JSONName |-> fieldName,
                                  GoType |-> goType,
                                  JSONTag |-> generateJSONTag(fieldName, schema),
                                  Required |-> FALSE,
                                  Properties |-> o.props,
                                  Items |-> o.items]
                 IN [st |-> [heap |-> Append(o.st.heap, typeInfo),
                             cache |-> (cacheKey :> id) @@ o.st.cache],
                     res |-> id, err |-> ""]
    IN IF goType = Panic THEN {Failed(st, Panic[1])}
       ELSE {finish(o2) : o2 \in UNION {withItems(o) : o \in withProps}}

\* The loop over schema.Properties, remaining being the keys not yet visited
\* and acc typeInfo.Properties so far: any remaining key may come next.
AnalyzeProperties(st, schema, typeName, remaining, acc) ==
    IF remaining = {} THEN {[st |-> st, props |-> acc, err |-> ""]}
    ELSE UNION {
           UNION {IF o.err # ""
                  THEN {[st |-> o.st, props |-> acc, err |-> o.err]}
                  ELSE AnalyzeProperties(
                           SetRequired(o.st, o.res, propName \in Range(schema.required)),
                           schema, typeName, remaining \ {propName},
                           (propName :> o.res) @@ acc) :
                  o \in AnalyzeSchema(st, <<schema.props[propName]>>,
                                      generatePropertyTypeName(typeName, propName),
                                      propName)} :
           propName \in remaining}

\* sort.Slice on at most 12 elements is an insertion sort: x moves left
\* past every element whose Name is greater than its own.
RECURSIVE InsertField(_, _, _)
InsertField(h, sorted, x) ==
    IF sorted = <<>> THEN <<x>>
    ELSE LET last == sorted[Len(sorted)] IN
         IF StrLess(h[x].Name, h[last].Name)
         THEN Append(InsertField(h, SubSeq(sorted, 1, Len(sorted) - 1), x), last)
         ELSE Append(sorted, x)

RECURSIVE SortFields(_, _, _)
SortFields(h, fields, sorted) ==
    IF fields = <<>> THEN sorted
    ELSE SortFields(h, Tail(fields), InsertField(h, sorted, Head(fields)))

\* GetStructFields of the node id: the set of its results, one for each order
\* in which typeInfo.Properties can be visited (<<>> is nil).
GetStructFields(h, id) ==
    IF DOMAIN h[id].Properties = {} THEN {<<>>}
    ELSE {SortFields(h, [i \in DOMAIN o |-> h[id].Properties[o[i]]], <<>>) :
             o \in Orders(DOMAIN h[id].Properties)}

---------------------------------------------------------------------------
(* The schema renderer: a text is the sequence of the pieces written *)

Tabs(n) == [i \in 1..n |-> "\t"]

Quoted(str) == <<"\"">> \o str \o <<"\"">>

appendBasicSchemaFields(schema, indent) ==
    IF schema.type # ""
    THEN Tabs(indent) \o <<"\tType:        ", "\"", schema.type, "\"", ",\n">>
    ELSE <<>>

\* The required list, in list order.
RECURSIVE RequiredItems(_, _)
RequiredItems(required, i) ==
    IF i > Len(required) THEN <<>>
    ELSE (IF i > 1 THEN <<", ">> ELSE <<>>) \o Quoted(required[i])
         \o RequiredItems(required, i + 1)

RECURSIVE convertSchemaToGoCode(_, _), PropertyEntries(_, _, _), appendSchemaStructure(_, _)
\* The texts convertSchemaToGoCode may return for the schema pointer ptr.
convertSchemaToGoCode(ptr, indent) ==
    IF ptr = <<>> THEN {<<>>}
    ELSE {<<"&jsonschema.Schema{\n">>
            \o appendBasicSchemaFields(ptr[1], indent)
            \o structure
            \o Tabs(indent) \o <<"}">> :
          structure \in appendSchemaStructure(ptr[1], indent)}

\* The entries of the properties visited in the order given.
PropertyEntries(schema, indent, order) ==
    IF order = <<>> THEN {<<>>}
    ELSE {Tabs(indent) \o <<"\t\t">> \o Quoted(Head(order)) \o <<": ">> \o code \o <<",\n">>
            \o rest :
          code \in convertSchemaToGoCode(<<schema.props[Head(order)]>>, indent + 2),
          rest \in PropertyEntries(schema, indent, Tail(order))}

appendSchemaStructure(schema, indent) ==
    LET properties ==
            IF DOMAIN schema.props # {}
            THEN {Tabs(indent) \o <<"\tProperties: map[string]*jsonschema.Schema{\n">>
                    \o entries \o Tabs(indent) \o <<"\t},\n">> :
                  entries \in UNION {PropertyEntries(schema, indent, order) :
                                        order \in Orders(DOMAIN schema.props)}}
            ELSE {<<>>}
        required ==
            IF Len(schema.required) > 0
            THEN Tabs(indent) \o <<"\tRequired:    []string{">>
                 \o RequiredItems(schema.required, 1) \o <<"},\n">>
            ELSE <<>>
        items ==
            IF schema.itemsSet /\ schema.items # <<>>
            THEN {Tabs(indent) \o <<"\tItems: &jsonschema.Schema">> \o code \o <<",\n">> :
                  code \in convertSchemaToGoCode(schema.items, indent + 1)}
            ELSE {<<>>}
    IN {p \o required \o i : p \in properties, i \in items}

---------------------------------------------------------------------------
(* The analyzer as a state machine *)

\* The type name the resource's schema is analyzed under (CRDInfo.GetTypeName).
RootTypeName == <<"T">>

\* Deepest nesting of the schema of a call on a shared analyzer.
MaxCallDepth == 1

\* Most AnalyzeSchema calls on a shared analyzer.
MaxCalls == 2

\* The schemas that declare no type: with the properties of an object, with
\* the item schema of an array, or with neither.
TypelessSchemas(d) ==
    {[schema EXCEPT !.type = ""] :
        schema \in {n \in NestedSchemas(d) : n.type \in {"object", "array"}}}
    \cup {SchemaOf("", EmptyMap, <<>>, <<>>)}

\* The schemas whose items entry is a list of schemas: Items is set and
\* Items.Schema is nil.
TupleItemsSchemas ==
    {[SchemaOf(t, EmptyMap, <<>>, <<>>) EXCEPT !.itemsSet = TRUE] : t \in {"array", ""}}

\* The schema pointers of such a call: nil, or a schema.
CallSchemas ==
    {<<>>} \cup {<<schema>> : schema \in NestedSchemas(MaxCallDepth)
                                       \cup TypelessSchemas(MaxCallDepth)
                                       \cup TupleItemsSchemas}

TypeNames == {<<"T">>, <<"T", "s">>}
FieldNames == {<<>>, <<"f">>}

AnalyzeSchemaCall(ptr, typeName, fieldName) ==
    /\ \E out \in AnalyzeSchema([heap |-> heap, cache |-> typeCache], ptr, typeName, fieldName) :
          /\ heap' = out.st.heap
          /\ typeCache' = out.st.cache
          /\ calls' = Append(calls, [schema |-> ptr, typeName |-> typeName,
                                     fieldName |-> fieldName,
                                     res |-> out.res, err |-> out.err])
    /\ UNCHANGED <<structFields, rendered>>
    /\ UNCHANGED <<crudVars, crdVars, walkVars, nameVars, runVars, caseVars, genVars, regVars>>

\* analyzeTypes: a new analyzer analyzes the resource's schema.
AnalyzeResource ==
    /\ calls = <<>>
    /\ \E schema \in ResourceSchemas : AnalyzeSchemaCall(<<schema>>, RootTypeName, <<>>)

\* Any caller analyzes any schema under any names on the analyzer it holds.
AnalyzeAny ==
    /\ Len(calls) < MaxCalls
    /\ \E ptr \in CallSchemas :
          \E typeName \in TypeNames, fieldName \in FieldNames :
              AnalyzeSchemaCall(ptr, typeName, fieldName)

\* A template asks a node for its struct fields.
GetStructFieldsCall ==
    /\ calls # <<>>
    /\ structFields = <<>>
    /\ rendered = <<>>
    /\ \E id \in DOMAIN heap : \E fields \in GetStructFields(heap, id) :
          structFields' = [node |-> id, fields |-> fields]
    /\ UNCHANGED <<heap, typeCache, calls, rendered>>
    /\ UNCHANGED <<crudVars, crdVars, walkVars, nameVars, runVars, caseVars, genVars, regVars>>

\* The schema template renders the resource's schema.
ConvertSchemaCall ==
    /\ calls # <<>>
    /\ structFields = <<>>
    /\ rendered = <<>>
    /\ \E text \in convertSchemaToGoCode(calls[1].schema, 0) :
          rendered' = [schema |-> calls[1].schema, text |-> text]
    /\ UNCHANGED <<heap, typeCache, calls, structFields>>
    /\ UNCHANGED <<crudVars, crdVars, walkVars, nameVars, runVars, caseVars, genVars, regVars>>

NextSchema == AnalyzeResource \/ GetStructFieldsCall \/ ConvertSchemaCall

NextAnalyzer == AnalyzeAny

---------------------------------------------------------------------------
(* Claims about the schema analyzer and the renderer *)

\* C1: convertSchemaToGoCode returns the same text for a schema whatever the
\* order in which its property maps are visited.
C1_RenderDeterministic ==
    rendered # <<>> =>
        \A text \in convertSchemaToGoCode(rendered.schema, 0) : text = rendered.text

\* C2: GetStructFields returns the properties of a node as one sequence
\* sorted ascending by Name, the same for every order in which Properties
\* can be visited.
C2_FieldsSortedWhateverOrder ==
    structFields # <<>> =>
        LET fields == structFields.fields
            props == heap[structFields.node].Properties
        IN /\ Len(fields) = Cardinality(DOMAIN props)
           /\ Range(fields) = {props[p] : p \in DOMAIN props}
           /\ \A i, j \in DOMAIN fields :
                  i < j => ~StrLess(heap[fields[j]].Name, heap[fields[i]].Name)
           /\ \A other \in GetStructFields(heap, structFields.node) : other = fields

IsStruct(schema) == schema.type = "object" /\ DOMAIN schema.props # {}

HasItemSchema(schema) == schema.type = "array" /\ schema.itemsSet /\ schema.items # <<>>

\* In the tree under node id, every property node the schema declares
\* carries the required flag its own object gives it.
RECURSIVE RequiredMatches(_, _, _)
RequiredMatches(h, id, schema) ==
    /\ IsStruct(schema) =>
           \A p \in DOMAIN schema.props \cap DOMAIN h[id].Properties :
               /\ h[h[id].Properties[p]].Required = (p \in Range(schema.required))
               /\ RequiredMatches(h, h[id].Properties[p], schema.props[p])
    /\ (HasItemSchema(schema) /\ h[id].Items # 0) =>
           RequiredMatches(h, h[id].Items, schema.items[1])

\* C3: in the tree AnalyzeSchema returns, every property node has Required
\* true exactly when its name is in its own object's required list, at
\* every depth and for every visiting order.
C3_RequiredFromOwnObject ==
    \A i \in DOMAIN calls :
        calls[i].err = "" => RequiredMatches(heap, calls[i].res, calls[i].schema[1])

\* The type names AnalyzeSchema generates for the nodes of a schema, one for
\* each schema path.
RECURSIVE GeneratedNames(_, _)
GeneratedNames(schema, typeName) ==
    LET keys == SortedSeq(DOMAIN schema.props) IN
    <<typeName>>
    \o (IF IsStruct(schema)
        THEN Flatten([k \in DOMAIN keys |->
                        GeneratedNames(schema.props[keys[k]],
                                       generatePropertyTypeName(typeName, keys[k]))])
        ELSE <<>>)
    \o (IF HasItemSchema(schema)
        THEN GeneratedNames(schema.items[1], generateItemTypeName(typeName))
        ELSE <<>>)

HasNameCollision(schema, typeName) ==
    LET names == GeneratedNames(schema, typeName)
    IN \E i, j \in DOMAIN names : i < j /\ names[i] = names[j]

\* C9: when two distinct schema paths generate the same type name,
\* AnalyzeSchema fails with an error instead of returning a type tree.
C9_CollisionIsAnError ==
    \A i \in DOMAIN calls :
        (calls[i].schema # <<>> /\ HasNameCollision(calls[i].schema[1], calls[i].typeName))
            => calls[i].err # ""

\* The node id describes the schema: its GoType, Properties and Items are
\* those of the schema, all the way down.
RECURSIVE Describes(_, _, _, _)
Describes(h, id, schema, typeName) ==
    /\ h[id].GoType = getGoTypeFromSchema(schema, typeName)
    /\ DOMAIN h[id].Properties = (IF IsStruct(schema) THEN DOMAIN schema.props ELSE {})
    /\ \A p \in DOMAIN h[id].Properties :
           Describes(h, h[id].Properties[p], schema.props[p],
                     generatePropertyTypeName(typeName, p))
    /\ (h[id].Items # 0) = HasItemSchema(schema)
    /\ h[id].Items # 0 =>
           Describes(h, h[id].Items, schema.items[1], generateItemTypeName(typeName))

\* C10: the node each AnalyzeSchema call returns describes the schema passed
\* to that call, also after an earlier call with the same names.
C10_NodeDescribesItsSchema ==
    \A i \in DOMAIN calls :
        calls[i].err = "" =>
            Describes(heap, calls[i].res, calls[i].schema[1], calls[i].typeName)

\* C12: no AnalyzeSchema call changes a node that an earlier call has
\* returned or that is reachable from one (every node allocated before
\* the call).
C12_ReturnedNodesFrozen ==
    [][\A id \in DOMAIN heap : heap'[id] = heap[id]]_vars

\* C13: on a new analyzer, a schema that declares no type gets the node of
\* an object when it has properties (Properties populated, with the required
\* flags), the node of an array when it has an item schema (Items
\* populated), and else the type interface{}.
C13_TypelessLikeObjectOrArray ==
    (calls # <<>> /\ calls[1].err = "" /\ calls[1].schema[1].type = "") =>
        LET schema == calls[1].schema[1]
            node == heap[calls[1].res]
        IN IF DOMAIN schema.props # {}
           THEN /\ DOMAIN node.Properties = DOMAIN schema.props
                /\ \A p \in DOMAIN node.Properties :
                       heap[node.Properties[p]].Required = (p \in Range(schema.required))
           ELSE IF schema.itemsSet /\ schema.items # <<>>
           THEN node.Items # 0
           ELSE node.GoType = Str_interface

\* C14: AnalyzeSchema fails when its schema is nil and only then: every
\* other schema, also one whose items entry has no single item schema,
\* gets a result, without an error and without a panic.
C14_ErrorOnlyOnNil ==
    \A i \in DOMAIN calls :
        /\ (calls[i].err # "") = (calls[i].schema = <<>>)
        /\ calls[i].err = "" => calls[i].res \in DOMAIN heap

---------------------------------------------------------------------------
(* The toolset: NewToolsetInfo and analyzeTypes *)

Str_spec == <<"s", "p", "e", "c">>
\* A property of the resource's schema analyzed a second time under its own
\* type name, when the schema has it.
AnalyzeNamedProperty(st, schema, propName, typeName) ==
    IF propName \in DOMAIN schema.props
    THEN AnalyzeSchema(st, <<schema.props[propName]>>, typeName, propName)
    ELSE {[st |-> st, res |-> 0, err |-> ""]}

\* analyzeTypes on CRDInfo.Schema (ptr, <<>> for nil) and CRDInfo.GetTypeName():
\* the set of its outcomes.  A new analyzer analyzes the main type, then spec
\* and status.
analyzeTypes(ptr, typeName) ==
    LET none(err, st) == [err |-> err, MainType |-> 0, SpecType |-> 0,
                          StatusType |-> 0, heap |-> st.heap]
        new == [heap |-> <<>>, cache |-> EmptyMap]
    IN
    IF ptr = <<>> THEN {none("CRD schema is required for type generation", new)}
    ELSE UNION {
        IF main.err # "" THEN {none(main.err, main.st)}
        ELSE UNION {
            IF spec.err # "" THEN {none(spec.err, spec.st)}
            ELSE {IF status.err # "" THEN none(status.err, status.st)
                  ELSE [err |-> "", MainType |-> main.res, SpecType |-> spec.res,
                        StatusType |-> status.res, heap |-> status.st.heap] :
                  status \in AnalyzeNamedProperty(spec.st, ptr[1], <<"s", "t", "a", "t", "u", "s">>,
                                                  typeName \o <<"S", "t", "a", "t", "u", "s">>)} :
            spec \in AnalyzeNamedProperty(main.st, ptr[1], Str_spec,
                                          typeName \o <<"S", "p", "e", "c">>)} :
        main \in AnalyzeSchema(new, ptr, typeName, <<>>)}

\* NewToolsetInfo: the toolset, or nil (made FALSE) and the error.
NewToolsetInfo(ptr, typeName) ==
    {[err |-> t.err, made |-> t.err = "", MainType |-> t.MainType,
      SpecType |-> t.SpecType, StatusType |-> t.StatusType, heap |-> t.heap] :
     t \in analyzeTypes(ptr, typeName)}

\* The schema a version carries: an object with a spec of one property, a
\* string in the odd versions and an integer in the even ones.
VersionSchema(i) ==
    SchemaOf("object",
             Str_spec :> SchemaOf("object",
                                  <<"x">> :> SchemaOf(IF i % 2 = 1 THEN "string" ELSE "integer",
                                                      EmptyMap, <<>>, <<>>),
                                  <<>>, <<>>),
             <<>>, <<>>)

\* The pointer CRDInfo.Schema holds.
SchemaPointer(id) == IF id = 0 THEN <<>> ELSE <<VersionSchema(id)>>

\* generateFromSingleCRD after ParseCRDFromFile: the toolset of the CRD.
NewToolsetInfoCall ==
    /\ crdPc = "analyzed"
    /\ crdInfo.err = ""
    /\ \E t \in NewToolsetInfo(SchemaPointer(crdInfo.Schema), crd.Kind) :
          toolset' = [err |-> t.err, made |-> t.made,
                      Schema |-> IF t.made THEN crdInfo.Schema ELSE 0,
                      MainType |-> t.MainType, SpecType |-> t.SpecType,
                      StatusType |-> t.StatusType,
                      analyzed |-> Len(t.heap)]
    /\ crdPc' = "toolset"
    /\ UNCHANGED <<crd, crdInfo>>
    /\ UNCHANGED <<crudVars, schemaVars, walkVars, nameVars, runVars, caseVars, genVars, regVars>>

NextCRD == LoadCRD \/ AnalyzeCRDCall \/ NewToolsetInfoCall

---------------------------------------------------------------------------
(* Claims about validation and the storage version's schema *)

HasSchema(versions) == \E i \in DOMAIN versions : versions[i].Schema # 0

\* C15: ValidateCRD accepts a CRD with an empty group, a kind, a plural and a
\* version with a schema.
C15_EmptyGroupAccepted ==
    (/\ crdPc \in {"analyzed", "toolset"}
     /\ crd.Group = "" /\ crd.Kind # <<>> /\ crd.Plural # ""
     /\ HasSchema(crd.Versions))
        => crdInfo.err = ""

\* The version C4 describes: the flagged one, or the first when none is.
SelectedVersion(versions) ==
    IF Flagged(versions) = {} THEN 1 ELSE CHOOSE i \in Flagged(versions) : TRUE

\* C16: when the storage version has no schema, NewToolsetInfo fails, makes
\* no toolset and analyzes no schema, also when another version has one.
C16_NoStorageSchemaFails ==
    (/\ crdPc = "toolset"
     /\ Cardinality(Flagged(crd.Versions)) <= 1
     /\ crd.Versions[SelectedVersion(crd.Versions)].Schema = 0)
        => /\ toolset.err # ""
           /\ ~toolset.made
           /\ toolset.Schema = 0 /\ toolset.MainType = 0
           /\ toolset.analyzed = 0

\* The storage version is the second of two and has no schema, the first
\* version has one, and NewToolsetInfo has failed.
C16_Witness ==
    /\ crdPc = "toolset"
    /\ Len(crd.Versions) = 2
    /\ crd.Versions[1].Schema # 0 /\ ~crd.Versions[1].Storage
    /\ crd.Versions[2].Schema = 0 /\ crd.Versions[2].Storage
    /\ toolset.err = "CRD schema is required for type generation"

---------------------------------------------------------------------------
(* The name helpers: pluralize and singularize *)

ToUpper(str) == [i \in DOMAIN str |-> ToUpperChar(str[i])]

isVowel(r) == r \in {"a", "e", "i", "o", "u", "A", "E", "I", "O", "U"}

\* The keys of the commonPlurals map; each maps to itself.
commonPlurals ==
    {<<"f", "u", "n", "c", "t", "i", "o", "n", "s">>,
     <<"s", "e", "r", "v", "i", "c", "e", "s">>,
     <<"r", "e", "s", "o", "u", "r", "c", "e", "s">>,
     <<"p", "o", "l", "i", "c", "i", "e", "s">>,
     <<"d", "e", "p", "l", "o", "y", "m", "e", "n", "t", "s">>,
     <<"c", "o", "n", "f", "i", "g", "m", "a", "p", "s">>,
     <<"s", "e", "c", "r", "e", "t", "s">>,
     <<"e", "n", "d", "p", "o", "i", "n", "t", "s">>,
     <<"n", "a", "m", "e", "s", "p", "a", "c", "e", "s">>,
     <<"n", "o", "d", "e", "s">>,
     <<"p", "o", "d", "s">>,
     <<"v", "o", "l", "u", "m", "e", "s">>,
     <<"e", "v", "e", "n", "t", "s">>,
     <<"j", "o", "b", "s">>,
     <<"c", "r", "o", "n", "j", "o", "b", "s">>,
     <<"i", "n", "g", "r", "e", "s", "s", "e", "s">>,
     <<"c", "l", "a", "s", "s", "e", "s">>,
     <<"d", "a", "t", "a", "b", "a", "s", "e", "s">>,
     <<"c", "a", "c", "h", "e", "s">>,
     <<"q", "u", "e", "u", "e", "s">>,
     <<"p", "r", "o", "c", "e", "s", "s", "e", "s">>,
     <<"a", "d", "d", "r", "e", "s", "s", "e", "s">>,
     <<"r", "e", "s", "p", "o", "n", "s", "e", "s">>,
     <<"r", "e", "q", "u", "e", "s", "t", "s">>,
     <<"s", "t", "a", "t", "u", "s", "e", "s">>,
     <<"d", "a", "t", "a">>,
     <<"m", "e", "t", "a", "d", "a", "t", "a">>,
     <<"w", "i", "d", "g", "e", "t", "s">>}

\* s without its last n characters.
DropLast(str, n) == SubSeq(str, 1, Len(str) - n)

pluralize(str) ==
    LET lowerS == ToLower(str) IN
    IF str = <<>> THEN str
    ELSE IF lowerS \in commonPlurals
    THEN (IF str = ToUpper(str) THEN ToUpper(lowerS)
          ELSE IF IsUpper(str[1]) THEN TitlePart(lowerS)
          ELSE lowerS)
    ELSE IF HasSuffix(str, <<"s">>) \/ HasSuffix(str, <<"x">>) \/ HasSuffix(str, <<"z">>)
         THEN str \o <<"e", "s">>
    ELSE IF HasSuffix(str, <<"c", "h">>) \/ HasSuffix(str, <<"s", "h">>)
         THEN str \o <<"e", "s">>
    ELSE IF HasSuffix(str, <<"y">>)
         THEN (IF Len(str) > 1 /\ isVowel(str[Len(str) - 1])
               THEN str \o <<"s">>
               ELSE DropLast(str, 1) \o <<"i", "e", "s">>)
    ELSE IF HasSuffix(str, <<"f">>) THEN DropLast(str, 1) \o <<"v", "e", "s">>
    ELSE IF HasSuffix(str, <<"f", "e">>) THEN DropLast(str, 2) \o <<"v", "e", "s">>
    ELSE str \o <<"s">>

singularize(str) ==
    IF str = <<>> THEN str
    ELSE IF HasSuffix(str, <<"i", "e", "s">>) THEN DropLast(str, 3) \o <<"y">>
    ELSE IF HasSuffix(str, <<"v", "e", "s">>)
         THEN (IF HasSuffix(str, <<"i", "v", "e", "s">>)
               THEN DropLast(str, 3) \o <<"f", "e">>
               ELSE DropLast(str, 3) \o <<"f">>)
    ELSE IF HasSuffix(str, <<"s", "e", "s">>) \/ HasSuffix(str, <<"x", "e", "s">>)
            \/ HasSuffix(str, <<"z", "e", "s">>)
         THEN DropLast(str, 2)
    ELSE IF HasSuffix(str, <<"c", "h", "e", "s">>) \/ HasSuffix(str, <<"s", "h", "e", "s">>)
         THEN DropLast(str, 2)
    ELSE IF HasSuffix(str, <<"s">>) /\ ~HasSuffix(str, <<"s", "s">>)
         THEN DropLast(str, 1)
    ELSE str

\* Longest word made of WordLetters the model pluralizes.
MaxWordLen == 3

\* The letters of those words: the ones the rules look at, and two others.
WordLetters == {"a", "e", "i", "y", "s", "x", "z", "c", "h", "f", "v", "t"}

\* A word of the table with any of its letters in upper case.
CaseVariants(w) ==
    {[i \in DOMAIN w |-> IF i \in U THEN ToUpperChar(w[i]) ELSE w[i]] :
        U \in SUBSET DOMAIN w}

\* The arguments of pluralize: the empty word, short words over WordLetters
\* and the words of the table in every letter case.
NameWords ==
    SeqsUpTo(WordLetters, MaxWordLen) \cup UNION {CaseVariants(w) : w \in commonPlurals}

\* A template (or any caller) pluralizes a word.
PluralizeCall ==
    /\ namePc = "idle"
    /\ \E w \in NameWords :
          /\ word' = w
          /\ plural' = pluralize(w)
    /\ namePc' = "pluralized"
    /\ UNCHANGED singular
    /\ UNCHANGED <<crudVars, crdVars, schemaVars, walkVars, runVars, caseVars, genVars, regVars>>

\* The plural is singularized again.
SingularizeCall ==
    /\ namePc = "pluralized"
    /\ singular' = singularize(plural)
    /\ namePc' = "singularized"
    /\ UNCHANGED <<word, plural>>
    /\ UNCHANGED <<crudVars, crdVars, schemaVars, walkVars, runVars, caseVars, genVars, regVars>>

NextNames == PluralizeCall \/ SingularizeCall

---------------------------------------------------------------------------
(* Claims about the name helpers *)

\* C19: pluralize returns its argument unchanged when the lower-case form of
\* the argument is in the exception table, whatever its letter case.
C19_ExceptionWordsUnchanged ==
    (namePc # "idle" /\ ToLower(word) \in commonPlurals) => plural = word

\* C20: singularize(pluralize(w)) = w for every word w outside the exception
\* table that one of the rules pluralizes.
C20_RoundTrip ==
    (namePc = "singularized" /\ word # <<>> /\ ToLower(word) \notin commonPlurals)
        => singular = word

---------------------------------------------------------------------------
(* AnalyzeSchema call by call.  Items.Schema is a pointer, so the schemas in  *)
(* memory form a graph: a schema is an address and its items field the       *)
(* address of its item schema (0 for nil).  These schemas have no properties *)
(* (Properties holds schemas by value and cannot lead back).                 *)

\* Most schemas in memory.
MaxWalkNodes == 2

\* The frames the goroutine's stack has room for.
StackLimit == 6

WalkGraphs ==
    UNION {[1..n -> [type : {"array", "string", ""}, items : 0..n]] : n \in 1..MaxWalkNodes}

Frame(fn, schema, typeName, pos) ==
    [fn |-> fn, schema |-> schema, typeName |-> typeName, pos |-> pos]

Top == walkStack[Len(walkStack)]

\* A call: the caller moves to pos and the callee's frame is pushed, unless
\* the stack has no room for it.
Call(pos, callee) ==
    IF Len(walkStack) >= StackLimit
    THEN /\ walkPc' = "overflow"
         /\ UNCHANGED walkStack
    ELSE /\ walkStack' = Append([walkStack EXCEPT ![Len(walkStack)].pos = pos], callee)
         /\ UNCHANGED walkPc

\* A return: the frame is popped; the walk is over when it was the last one.
Return ==
    /\ walkStack' = SubSeq(walkStack, 1, Len(walkStack) - 1)
    /\ walkPc' = IF Len(walkStack) = 1 THEN "returned" ELSE "running"

\* A caller analyzes a schema in memory on the analyzer.
WalkStart ==
    /\ walkPc \in {"idle", "returned"}
    /\ \E g \in (IF walkPc = "idle" THEN WalkGraphs ELSE {walkGraph}) :
          /\ walkGraph' = g
          /\ \E root \in DOMAIN g :
                walkStack' = <<Frame("AnalyzeSchema", root, RootTypeName, "enter")>>
    /\ walkPc' = "running"
    /\ UNCHANGED walkCache
    /\ UNCHANGED <<crudVars, crdVars, schemaVars, nameVars, runVars, caseVars, genVars, regVars>>

\* AnalyzeSchema, from its entry to the call of getGoTypeFromSchema: a cached
\* key returns at once.
AnalyzeSchemaEnter ==
    /\ walkPc = "running"
    /\ Top.fn = "AnalyzeSchema" /\ Top.pos = "enter"
    /\ IF CacheKey(Top.typeName, <<>>) \in walkCache
       THEN Return
       ELSE Call("goType", Frame("getGoTypeFromSchema", Top.schema, Top.typeName, "enter"))
    /\ UNCHANGED <<walkGraph, walkCache>>
    /\ UNCHANGED <<crudVars, crdVars, schemaVars, nameVars, runVars, caseVars, genVars, regVars>>

\* getGoTypeFromSchema: an array with an item schema, and a schema of no type
\* with items, ask for the item's type first; every other schema returns.
GetGoTypeEnter ==
    /\ walkPc = "running"
    /\ Top.fn = "getGoTypeFromSchema" /\ Top.pos = "enter"
    /\ LET schema == walkGraph[Top.schema] IN
       IF schema.type \in {"array", ""} /\ schema.items # 0
       THEN Call("item", Frame("getGoTypeFromSchema", schema.items,
                               generateItemTypeName(Top.typeName), "enter"))
       ELSE Return
    /\ UNCHANGED <<walkGraph, walkCache>>
    /\ UNCHANGED <<crudVars, crdVars, schemaVars, nameVars, runVars, caseVars, genVars, regVars>>

\* getGoTypeFromSchema has the item's type and returns the slice type.
GetGoTypeReturn ==
    /\ walkPc = "running"
    /\ Top.fn = "getGoTypeFromSchema" /\ Top.pos = "item"
    /\ Return
    /\ UNCHANGED <<walkGraph, walkCache>>
    /\ UNCHANGED <<crudVars, crdVars, schemaVars, nameVars, runVars, caseVars, genVars, regVars>>

\* AnalyzeSchema has the Go type: an array with an item schema analyzes the
\* item, every other schema is cached and returned.
AnalyzeSchemaItems ==
    /\ walkPc = "running"
    /\ Top.fn = "AnalyzeSchema" /\ Top.pos = "goType"
    /\ LET schema == walkGraph[Top.schema] IN
       IF schema.type = "array" /\ schema.items # 0
       THEN /\ Call("items", Frame("AnalyzeSchema", schema.items,
                                   generateItemTypeName(Top.typeName), "enter"))
            /\ UNCHANGED walkCache
       ELSE /\ Return
            /\ walkCache' = walkCache \cup {CacheKey(Top.typeName, <<>>)}
    /\ UNCHANGED walkGraph
    /\ UNCHANGED <<crudVars, crdVars, schemaVars, nameVars, runVars, caseVars, genVars, regVars>>

\* AnalyzeSchema has the item's node: the array is cached and returned.
AnalyzeSchemaReturn ==
    /\ walkPc = "running"
    /\ Top.fn = "AnalyzeSchema" /\ Top.pos = "items"
    /\ Return
    /\ walkCache' = walkCache \cup {CacheKey(Top.typeName, <<>>)}
    /\ UNCHANGED walkGraph
    /\ UNCHANGED <<crudVars, crdVars, schemaVars, nameVars, runVars, caseVars, genVars, regVars>>

NextWalk ==
    \/ WalkStart
    \/ AnalyzeSchemaEnter
    \/ GetGoTypeEnter
    \/ GetGoTypeReturn
    \/ AnalyzeSchemaItems
    \/ AnalyzeSchemaReturn

---------------------------------------------------------------------------
(* Claims about termination *)

\* C11: AnalyzeSchema returns on every schema, also on one whose items lead
\* back to one of its ancestors: the recursion never exhausts the stack.
C11_RecursionBounded == walkPc # "overflow"

---------------------------------------------------------------------------
(* A run of the generate command *)

\* Most CRD files on disk.
MaxFiles == 2

RunFlags ==
    [crdFile : {"", "widget.yaml"}, crdDir : {"", "crds", "nodir"},
     outputDir : {"", "out"}, outputBase : {"", "base"},
     modulePath : {"", "example.com/m"}, crud : {<<"c", "r", "u", "d">>, <<>>, <<"x">>, <<"c", "c">>},
     generateDocResource : {"", "docs.md", "missing.md"}]

\* Accepts any --crud value.
validateFlagsWithoutCrud(f) ==
    IF f.crdFile = "" /\ f.crdDir = "" THEN "either --crd or --crd-dir must be specified"
    ELSE IF f.crdFile # "" /\ f.crdDir # "" THEN "--crd and --crd-dir are mutually exclusive"
    ELSE IF f.crdFile # "" /\ f.outputDir = "" THEN "--output is required when using --crd"
    ELSE IF f.crdDir # "" /\ f.outputBase = "" THEN "--output-base is required when using --crd-dir"
    ELSE IF f.modulePath = "" THEN "--module-path is required"
    ELSE ""

validateFlags(f) ==
    IF f.crdFile = "" /\ f.crdDir = "" THEN "either --crd or --crd-dir must be specified"
    ELSE IF f.crdFile # "" /\ f.crdDir # "" THEN "--crd and --crd-dir are mutually exclusive"
    ELSE IF f.crdFile # "" /\ f.outputDir = "" THEN "--output is required when using --crd"
    ELSE IF f.crdDir # "" /\ f.outputBase = "" THEN "--output-base is required when using --crd-dir"
    ELSE IF f.modulePath = "" THEN "--module-path is required"
    ELSE IF validateCRUDOperations(f.crud).kind # "ok" THEN "invalid --crud flag"
    ELSE ""

\* The versions of the CRDs on disk.
OneVersion == <<[Name |-> "v1alpha1", Storage |-> TRUE, Schema |-> 1]>>

\* The first version has a schema, the second is the storage version and has none.
StorageWithoutSchema ==
    <<[Name |-> "v1alpha1", Storage |-> FALSE, Schema |-> 1],
      [Name |-> "v1", Storage |-> TRUE, Schema |-> 0]>>

RunCRD(kind, versions) ==
    [Group |-> "example.com", Kind |-> kind, Plural |-> "widgets",
     ListKind |-> <<>>, Versions |-> versions]

\* A schema whose spec has a property of no type with a list of item
\* schemas: Items is set and Items.Schema is nil.
TupleItemsSchema ==
    SchemaOf("object",
             Str_spec :> SchemaOf("object",
                                  <<"x">> :> [SchemaOf("", EmptyMap, <<>>, <<>>)
                                                 EXCEPT !.itemsSet = TRUE],
                                  <<>>, <<>>),
             <<>>, <<>>)

\* A file on disk: text that does not decode, or a CRD, the schema its
\* versions carry, and whether writing its toolset fails.
File(parse, c, schema, genErr) ==
    [parse |-> parse, crd |-> c, schema |-> schema, genErr |-> genErr]

RunFiles ==
    {File("garbage", RunCRD(<<"W">>, OneVersion), VersionSchema(1), FALSE),
     File("crd", RunCRD(<<>>, OneVersion), VersionSchema(1), FALSE),
     File("crd", RunCRD(<<"W">>, OneVersion), VersionSchema(1), FALSE),
     File("crd", RunCRD(<<"W">>, OneVersion), VersionSchema(1), TRUE),
     File("crd", RunCRD(<<"W">>, StorageWithoutSchema), VersionSchema(1), FALSE),
     File("crd", RunCRD(<<"W">>, OneVersion), TupleItemsSchema, FALSE)}

NilInfo == [err |-> "", Version |-> "", Versions |-> <<>>, Schema |-> 0, ListKind |-> <<>>]

Event(step, file, err, info) == [step |-> step, file |-> file, err |-> err, info |-> info]

\* ParseCRDFromFile on the file at place i: the file is read and decoded,
\* and AnalyzeCRD makes the CRDInfo.
ParseCRDFromFile(fs, i) ==
    IF i > Len(fs) THEN [NilInfo EXCEPT !.err = "failed to open CRD file"]
    ELSE IF fs[i].parse = "garbage" THEN [NilInfo EXCEPT !.err = "failed to decode CRD"]
    ELSE AnalyzeCRD(fs[i].crd)

\* LoadDocumentationContent: the path docs.md loads, any other fails.
LoadDocumentationContent(path) ==
    IF path = "docs.md" THEN "" ELSE "failed to load documentation"

\* The steps both modes take for one file, parse, load the documentation,
\* NewToolsetInfo and generateToolset, up to the first that fails: the set
\* of [events, err].
FileSteps(fs, i, f) ==
    LET info == ParseCRDFromFile(fs, i)
        parsed == <<Event("parse", i, info.err, info)>>
        docErr == IF f.generateDocResource # ""
                  THEN LoadDocumentationContent(f.generateDocResource) ELSE ""
        loaded == IF f.generateDocResource # ""
                  THEN parsed \o <<Event("doc", i, docErr, <<>>)>> ELSE parsed
        ptr == IF info.Schema = 0 THEN <<>> ELSE <<fs[i].schema>>
        selected == parseCRUDOperations(f.crud)
    IN IF info.err # "" THEN {[events |-> parsed, err |-> info.err]}
       ELSE IF docErr # "" THEN {[events |-> loaded, err |-> docErr]}
       ELSE {IF t.err # ""
             THEN [events |-> loaded \o <<Event("analyze", i, t.err, selected)>>,
                   err |-> t.err]
             ELSE IF fs[i].genErr
             THEN [events |-> loaded \o <<Event("analyze", i, "", selected),
                                          Event("generate", i, "failed to generate toolset", <<>>)>>,
                   err |-> "failed to generate toolset"]
             ELSE [events |-> loaded \o <<Event("analyze", i, "", selected),
                                          Event("generate", i, "", <<>>)>>,
                   err |-> ""] :
             t \in NewToolsetInfo(ptr, fs[i].crd.Kind)}

\* The command line is parsed; the files are what is on disk.
ParseArgs ==
    /\ runPc = "start"
    /\ \E f \in RunFlags : flags' = f
    /\ \E fs \in SeqsUpTo(RunFiles, MaxFiles) : files' = fs
    /\ runPc' = "args"
    /\ UNCHANGED <<runIdx, runLog, runErr>>
    /\ UNCHANGED <<crudVars, crdVars, schemaVars, walkVars, nameVars, caseVars, genVars, regVars>>

\* runGenerate: validateFlags, then the mode.
RunGenerate ==
    /\ runPc = "args"
    /\ LET err == validateFlags(flags) IN
       /\ runErr' = err
       /\ runPc' = IF err # "" THEN "done"
                   ELSE IF flags.crdFile # "" THEN "single" ELSE "dir"
    /\ UNCHANGED <<flags, files, runIdx, runLog>>
    /\ UNCHANGED <<crudVars, crdVars, schemaVars, walkVars, nameVars, caseVars, genVars, regVars>>

\* generateFromSingleCRD: the first error is returned; a panic ends the process.
GenerateFromSingleCRD ==
    /\ runPc = "single"
    /\ \E o \in FileSteps(files, 1, flags) :
          /\ runLog' = runLog \o o.events
          /\ runErr' = o.err
          /\ runPc' = IF o.err = Panic[1] THEN "crashed" ELSE "done"
    /\ UNCHANGED <<flags, files, runIdx>>
    /\ UNCHANGED <<crudVars, crdVars, schemaVars, walkVars, nameVars, caseVars, genVars, regVars>>

\* findCRDFiles: the walk of a directory that is not there fails.
findCRDFiles(dir, fs) ==
    IF dir = "nodir" THEN [crdFiles |-> <<>>, err |-> "failed to walk"]
    ELSE [crdFiles |-> fs, err |-> ""]

\* generateFromDirectory up to its loop: findCRDFiles.
GenerateFromDirectory ==
    /\ runPc = "dir"
    /\ IF findCRDFiles(flags.crdDir, files).err # ""
       THEN /\ runErr' = "failed to find CRD files"
            /\ runPc' = "done"
            /\ UNCHANGED runIdx
       ELSE IF Len(findCRDFiles(flags.crdDir, files).crdFiles) = 0
       THEN /\ runErr' = "no CRD files found in directory"
            /\ runPc' = "done"
            /\ UNCHANGED runIdx
       ELSE /\ runIdx' = 1
            /\ runPc' = "loop"
            /\ UNCHANGED runErr
    /\ UNCHANGED <<flags, files, runLog>>
    /\ UNCHANGED <<crudVars, crdVars, schemaVars, walkVars, nameVars, caseVars, genVars, regVars>>

\* The body of the loop for one file: an error is a warning and the loop
\* goes on; a panic ends the process.
ProcessFile ==
    /\ runPc = "loop"
    /\ runIdx <= Len(files)
    /\ \E o \in FileSteps(files, runIdx, flags) :
          /\ runLog' = runLog \o o.events
          /\ IF o.err = Panic[1]
             THEN /\ runPc' = "crashed"
                  /\ runErr' = o.err
                  /\ UNCHANGED runIdx
             ELSE /\ runIdx' = runIdx + 1
                  /\ UNCHANGED <<runPc, runErr>>
    /\ UNCHANGED <<flags, files>>
    /\ UNCHANGED <<crudVars, crdVars, schemaVars, walkVars, nameVars, caseVars, genVars, regVars>>

\* The loop is over: generateFromDirectory returns nil.
FinishDirectory ==
    /\ runPc = "loop"
    /\ runIdx > Len(files)
    /\ runErr' = ""
    /\ runPc' = "done"
    /\ UNCHANGED <<flags, files, runIdx, runLog>>
    /\ UNCHANGED <<crudVars, crdVars, schemaVars, walkVars, nameVars, caseVars, genVars, regVars>>

NextRun ==
    \/ ParseArgs
    \/ RunGenerate
    \/ GenerateFromSingleCRD
    \/ GenerateFromDirectory
    \/ ProcessFile
    \/ FinishDirectory

---------------------------------------------------------------------------
(* Claims about the run *)

Finished == runPc \in {"done", "crashed"}

\* The run has passed validateFlags in this mode.
InDirectoryMode == flags.crdDir # "" /\ runPc \in {"loop", "done", "crashed"} /\ runIdx > 0
InSingleMode == flags.crdFile # "" /\ runPc \in {"done", "crashed"} /\ runLog # <<>>

\* The files the run has parsed, in the order it parsed them.
ParsedFiles == SelectSeq(runLog, LAMBDA e : e.step = "parse")

\* C17: in directory mode every file found is processed, in the order found,
\* whatever fails for an earlier file; in single-CRD mode nothing is done
\* after the first error.
C17_BatchContinuesSingleAborts ==
    /\ (InDirectoryMode /\ Finished) =>
           /\ Len(ParsedFiles) = Len(files)
           /\ \A i \in DOMAIN ParsedFiles : ParsedFiles[i].file = i
    /\ InSingleMode =>
           \A i \in DOMAIN runLog : runLog[i].err # "" => i = Len(runLog)

\* What the flags must satisfy, in the words of their error messages.
BadFlags(f) ==
    \/ f.crdFile = "" /\ f.crdDir = ""
    \/ f.crdFile # "" /\ f.crdDir # ""
    \/ f.crdFile # "" /\ f.outputDir = ""
    \/ f.crdDir # "" /\ f.outputBase = ""
    \/ f.modulePath = ""
    \/ f.crud = <<>> \/ HasInvalidChar(f.crud) \/ HasRepeatedChar(f.crud)

\* What ValidateCRD requires of a CRD.
BadCRD(c) ==
    \/ c.Group = "" \/ c.Kind = <<>> \/ c.Plural = ""
    \/ Len(c.Versions) = 0
    \/ ~HasSchema(c.Versions)

\* C18: a run whose flags or --crud value fail validation reads no file,
\* analyzes no schema and writes nothing, and AnalyzeCRD takes nothing from
\* a CRD that fails ValidateCRD.
C18_ValidationFirst ==
    /\ (runPc # "start" /\ BadFlags(flags)) =>
           /\ runLog = <<>>
           /\ runPc \in {"args", "done"}
           /\ runPc = "done" => runErr # ""
    /\ \A i \in DOMAIN runLog :
           (/\ runLog[i].step = "parse"
            /\ runLog[i].file \in DOMAIN files
            /\ files[runLog[i].file].parse = "crd"
            /\ BadCRD(files[runLog[i].file].crd))
               => /\ runLog[i].err # ""
                  /\ runLog[i].info = [NilInfo EXCEPT !.err = runLog[i].err]
                  /\ i = Len(runLog) \/ runLog[i + 1].step = "parse"

\* A run in directory mode with an invalid --crud value and two files on
\* disk has ended with the error and has done nothing.
C18_Witness ==
    /\ runPc = "done"
    /\ Len(files) = 2
    /\ flags.crdDir # "" /\ flags.outputBase # "" /\ flags.modulePath # ""
    /\ flags.crdFile = ""
    /\ flags.crud = <<"x">>
    /\ runErr = "invalid --crud flag"
    /\ runLog = <<>>

---------------------------------------------------------------------------
(* The case conversions and the name generators *)

\* The longest argument of a conversion.
MaxIdentLen == 3

\* splitCamelCase: a new word begins at every upper-case letter but the
\* first character.
RECURSIVE SplitCamelFrom(_, _, _)
SplitCamelFrom(str, i, cur) ==
    IF i > Len(str) THEN (IF cur = <<>> THEN <<>> ELSE <<cur>>)
    ELSE IF i > 1 /\ IsUpper(str[i]) /\ cur # <<>>
         THEN <<cur>> \o SplitCamelFrom(str, i + 1, <<str[i]>>)
         ELSE SplitCamelFrom(str, i + 1, Append(cur, str[i]))

splitCamelCase(str) == SplitCamelFrom(str, 1, <<>>)

\* Both conversions work on the fields between '-', '_', '.' and white
\* space, and when there is one field only, on its camel-case words.
toCamelCase(str) ==
    LET fields == FieldsFunc(str, {"-", "_", ".", " "})
        parts == IF Len(fields) = 1 THEN splitCamelCase(fields[1]) ELSE fields
    IN IF str = <<>> \/ Len(parts) = 0 THEN str
       ELSE ToLower(parts[1])
            \o Flatten([i \in 1..(Len(parts) - 1) |-> TitlePart(parts[i + 1])])

toPascalCase(str) ==
    LET fields == FieldsFunc(str, {"-", "_", ".", " "})
        parts == IF Len(fields) = 1 THEN splitCamelCase(fields[1]) ELSE fields
    IN IF str = <<>> THEN str
       ELSE Flatten([i \in DOMAIN parts |-> TitlePart(parts[i])])

\* Puts '_' before an upper-case letter and keeps the letter in upper case.
toSnakeCaseKeepsUpper(str) ==
    Flatten([i \in DOMAIN str |->
        IF IsUpper(str[i])
        THEN (IF i > 1 THEN <<"_">> ELSE <<>>) \o <<str[i]>>
        ELSE IF str[i] \in {"-", ".", " "} THEN <<"_">>
        ELSE <<str[i]>>])

toSnakeCase(str) ==
    Flatten([i \in DOMAIN str |->
        IF IsUpper(str[i])
        THEN (IF i > 1 THEN <<"_">> ELSE <<>>) \o <<ToLowerChar(str[i])>>
        ELSE IF str[i] \in {"-", ".", " "} THEN <<"_">>
        ELSE <<str[i]>>])

toKebabCase(str) ==
    Flatten([i \in DOMAIN str |->
        IF IsUpper(str[i])
        THEN (IF i > 1 THEN <<"-">> ELSE <<>>) \o <<ToLowerChar(str[i])>>
        ELSE IF str[i] \in {"_", ".", " "} THEN <<"-">>
        ELSE <<str[i]>>])

generateMethodName(operation, resourceName) ==
    CASE operation = <<"c", "r", "e", "a", "t", "e">> ->
             <<"C", "r", "e", "a", "t", "e">> \o toPascalCase(resourceName)
      [] operation = <<"g", "e", "t">> ->
             <<"G", "e", "t">> \o toPascalCase(resourceName)
      [] operation = <<"l", "i", "s", "t">> ->
             <<"L", "i", "s", "t">> \o toPascalCase(pluralize(resourceName))
      [] operation = <<"u", "p", "d", "a", "t", "e">> ->
             <<"U", "p", "d", "a", "t", "e">> \o toPascalCase(resourceName)
      [] operation = <<"d", "e", "l", "e", "t", "e">> ->
             <<"D", "e", "l", "e", "t", "e">> \o toPascalCase(resourceName)
      [] OTHER -> toPascalCase(operation \o resourceName)

generateToolName(operation, resourceName) ==
    CASE operation = <<"c", "r", "e", "a", "t", "e">> ->
             toSnakeCase(resourceName) \o <<"_">> \o <<"c", "r", "e", "a", "t", "e">>
      [] operation = <<"g", "e", "t">> ->
             toSnakeCase(resourceName) \o <<"_">> \o <<"g", "e", "t">>
      [] operation = <<"l", "i", "s", "t">> ->
             toSnakeCase(pluralize(resourceName)) \o <<"_">> \o <<"l", "i", "s", "t">>
      [] operation = <<"u", "p", "d", "a", "t", "e">> ->
             toSnakeCase(resourceName) \o <<"_">> \o <<"u", "p", "d", "a", "t", "e">>
      [] operation = <<"d", "e", "l", "e", "t", "e">> ->
             toSnakeCase(resourceName) \o <<"_">> \o <<"d", "e", "l", "e", "t", "e">>
      [] OTHER -> toSnakeCase(resourceName) \o <<"_">> \o toSnakeCase(operation)

\* One argument, of letters of both cases and the four separators, is
\* converted by each conversion and by toGoName.
ConvertCall ==
    /\ conv = <<>>
    /\ \E s \in SeqsUpTo({"a", "b", "A", "B", "-", "_", ".", " "}, MaxIdentLen) :
          /\ ident' = s
          /\ conv' = [camel |-> toCamelCase(s), pascal |-> toPascalCase(s),
                      snake |-> toSnakeCase(s), kebab |-> toKebabCase(s),
                      goName |-> toGoName(s),
                      child |-> generatePropertyTypeName(RootTypeName, s)]
    /\ reconv' = <<>>
    /\ UNCHANGED genNames
    /\ UNCHANGED <<crudVars, crdVars, schemaVars, walkVars, nameVars, runVars,
                   genVars, regVars>>

\* Each conversion is applied to its own result.
ReconvertCall ==
    /\ conv # <<>>
    /\ reconv = <<>>
    /\ reconv' = [camel |-> toCamelCase(conv.camel), pascal |-> toPascalCase(conv.pascal),
                  snake |-> toSnakeCase(conv.snake), kebab |-> toKebabCase(conv.kebab)]
    /\ UNCHANGED <<ident, conv, genNames>>
    /\ UNCHANGED <<crudVars, crdVars, schemaVars, walkVars, nameVars, runVars,
                   genVars, regVars>>

\* The generators are called with the five operations and one they do not
\* know, custom, and with the resource names widget, box, policy and apiKey.
GenerateNamesCall ==
    /\ genNames = <<>>
    /\ \E op \in {<<"c", "r", "e", "a", "t", "e">>, <<"g", "e", "t">>,
                  <<"l", "i", "s", "t">>, <<"u", "p", "d", "a", "t", "e">>,
                  <<"d", "e", "l", "e", "t", "e">>, <<"c", "u", "s", "t", "o", "m">>},
          r \in {<<"w", "i", "d", "g", "e", "t">>, <<"b", "o", "x">>,
                 <<"p", "o", "l", "i", "c", "y">>, <<"a", "p", "i", "K", "e", "y">>} :
          genNames' = [operation |-> op, resourceName |-> r,
                       method |-> generateMethodName(op, r),
                       tool |-> generateToolName(op, r)]
    /\ UNCHANGED <<ident, conv, reconv>>
    /\ UNCHANGED <<crudVars, crdVars, schemaVars, walkVars, nameVars, runVars,
                   genVars, regVars>>

NextCase == ConvertCall \/ ReconvertCall \/ GenerateNamesCall

---------------------------------------------------------------------------
(* Claims about the case conversions and the name generators *)

Words(str) ==
    LET parts == FieldsFunc(str, {"-", "_", ".", " "})
    IN Flatten([i \in DOMAIN parts |-> splitCamelCase(parts[i])])

RECURSIVE Join(_, _)
Join(ws, sep) ==
    IF ws = <<>> THEN <<>>
    ELSE IF Len(ws) = 1 THEN ws[1]
    ELSE ws[1] \o sep \o Join(Tail(ws), sep)

\* C22: the four conversions work on the same words, those between '-',
\* '_', '.', white space and internal upper-case boundaries, and differ in
\* the casing and the joining of these words only.
C22_SameWords ==
    conv # <<>> =>
        LET ws == Words(ident)
            lower == [i \in DOMAIN ws |-> ToLower(ws[i])]
            title == [i \in DOMAIN ws |-> TitlePart(ws[i])]
        IN /\ conv.pascal = Flatten(title)
           /\ conv.camel = (IF ws = <<>> THEN <<>> ELSE lower[1] \o Flatten(Tail(title)))
           /\ conv.snake = Join(lower, <<"_">>)
           /\ conv.kebab = Join(lower, <<"-">>)

\* C23: generateMethodName is Pascal(operation) followed by Pascal(resource)
\* for every operation but list, an unknown one included, and "List"
\* followed by Pascal(pluralize(resource)) for list; generateToolName
\* pluralizes the resource for list only and never the operation.
C23_GeneratedNames ==
    genNames # <<>> =>
        LET op == genNames.operation
            r == genNames.resourceName
            named == IF op = <<"l", "i", "s", "t">> THEN pluralize(r) ELSE r
        IN /\ genNames.method = toPascalCase(op) \o toPascalCase(named)
           /\ genNames.tool = toSnakeCase(named) \o <<"_">> \o toSnakeCase(op)

\* C26: toGoName gives the Pascal-case name made of the words between '-',
\* '_', '.', spaces and internal upper-case boundaries, and a child type is
\* named by its parent's type name followed by that name.
C26_GoNamePascal ==
    conv # <<>> =>
        LET ws == Words(ident)
            pascal == Flatten([i \in DOMAIN ws |-> TitlePart(ws[i])])
        IN /\ conv.goName = pascal
           /\ conv.child = RootTypeName \o pascal

---------------------------------------------------------------------------
(* RegisterInModulesFile *)

\* The --module-path of the runs and the packages toolsets are made for.
ModulePath == "example.com/m"

Packages == {"widgets", "gadgets"}

\* The import path registerToolsetImport makes: Join(modulePath, "pkg", packageName).
ImportPathOf(packageName) == <<ModulePath, "pkg", packageName>>

\* A line of modules.go: the package clause, a declaration, or the text
\* import _ "path" after pre, which is nothing, a tab or a comment mark.
PackageClause == [kind |-> "package", pre |-> "", path |-> <<>>]

ImportText(pre, path) == [kind |-> "import", pre |-> pre, path |-> path]

\* strings.HasPrefix(strings.TrimSpace(line), "import _")
IsImportStatement(line) == line.kind = "import" /\ line.pre \in {"", "\t"}

\* The place of the last import statement, 0 when there is none.
LastImportIdx(lines) ==
    LET S == {i \in DOMAIN lines : IsImportStatement(lines[i])}
    IN IF S = {} THEN 0 ELSE CHOOSE i \in S : \A j \in S : j <= i

\* format.Source: a file that parses, a package clause and then the imports
\* before any declaration, comes back with its import statements at the
\* left margin; any other file is an error.
formatSource(lines) ==
    LET parses ==
            /\ lines # <<>>
            /\ lines[1].kind = "package"
            /\ \A j \in DOMAIN lines : j > 1 => lines[j].kind # "package"
            /\ \A i, j \in DOMAIN lines :
                   (i < j /\ lines[i].kind = "decl") => ~IsImportStatement(lines[j])
    IN IF parses
       THEN [err |-> FALSE,
             lines |-> [i \in DOMAIN lines |->
                           IF IsImportStatement(lines[i])
                           THEN [lines[i] EXCEPT !.pre = ""] ELSE lines[i]]]
       ELSE [err |-> TRUE, lines |-> lines]

\* What os.ReadFile finds at a path: the lines of a file, or no file.
TextFile(exists, lines) == [exists |-> exists, lines |-> lines]

\* RegisterInModulesFile on the file at modulesFilePath: the file after the
\* call and the error.  importLine is the text import _ "importPath", and
\* strings.Contains finds it in any line that holds it, whatever comes
\* before it on the line.
RegisterInModulesFile(file, importPath) ==
    LET lines == file.lines
        importLine == ImportText("", importPath)
        contains == \E i \in DOMAIN lines :
                        lines[i].kind = "import" /\ lines[i].path = importPath
        last == LastImportIdx(lines)
        newContent == SubSeq(lines, 1, last) \o <<importLine>>
                          \o SubSeq(lines, last + 1, Len(lines))
        formatted == formatSource(newContent)
    IN IF ~file.exists THEN [file |-> file, err |-> "failed to read modules.go"]
       ELSE IF contains THEN [file |-> file, err |-> ""]
       ELSE IF last = 0
       THEN [file |-> file, err |-> "no import statements found in modules.go"]
       ELSE [file |-> TextFile(TRUE, formatted.lines), err |-> ""]

\* Most lines after the package clause of a modules.go, and most calls.
MaxModuleLines == 3
MaxRegistrations == 3

\* The files: a package clause and then lines, each an import of core, an
\* indented import of config, an import of widgets, that import commented
\* out, or a declaration; no import statement twice.
ModulesFiles ==
    LET moduleLines == {ImportText("", <<ModulePath, "pkg", "core">>),
                        ImportText("\t", <<ModulePath, "pkg", "config">>),
                        ImportText("", ImportPathOf("widgets")),
                        ImportText("// ", ImportPathOf("widgets")),
                        [kind |-> "decl", pre |-> "", path |-> <<>>]}
    IN {TextFile(TRUE, <<PackageClause>> \o body) : body \in
           {b \in SeqsUpTo(moduleLines, MaxModuleLines) :
               \A i, j \in DOMAIN b :
                   (i # j /\ IsImportStatement(b[i]) /\ IsImportStatement(b[j]))
                       => b[i].path # b[j].path}}

\* The file registrations are made on.
OpenModulesFile ==
    /\ ~modulesGo.exists
    /\ regLog = <<>>
    /\ \E f \in ModulesFiles : modulesGo' = f
    /\ UNCHANGED regLog
    /\ UNCHANGED <<crudVars, crdVars, schemaVars, walkVars, nameVars, runVars,
                   caseVars, genVars>>

RegisterCall ==
    /\ modulesGo.exists
    /\ Len(regLog) < MaxRegistrations
    /\ \E p \in Packages :
          LET r == RegisterInModulesFile(modulesGo, ImportPathOf(p)) IN
          /\ modulesGo' = r.file
          /\ regLog' = Append(regLog, [path |-> ImportPathOf(p), err |-> r.err,
                                       before |-> modulesGo.lines,
                                       after |-> r.file.lines])
    /\ UNCHANGED <<crudVars, crdVars, schemaVars, walkVars, nameVars, runVars,
                   caseVars, genVars>>

NextRegister == OpenModulesFile \/ RegisterCall

---------------------------------------------------------------------------
(* Claims about RegisterInModulesFile *)

\* The import statements of a path in a file.
ImportsOf(lines, path) ==
    {i \in DOMAIN lines : IsImportStatement(lines[i]) /\ lines[i].path = path}

\* The calls before call i that registered its path.
RegisteredBefore(i) ==
    {j \in 1..(i - 1) : regLog[j].path = regLog[i].path /\ regLog[j].err = ""}

\* A call on a registered path leaves modules.go as it is.
RegistrationIdempotent ==
    \A i \in DOMAIN regLog :
        RegisteredBefore(i) # {} => regLog[i].after = regLog[i].before

\* A path's first registration that changes the file puts its import
\* statement directly after the last import statement the file had.
InsertedAfterLastImport ==
    \A i \in DOMAIN regLog :
        (regLog[i].err = "" /\ regLog[i].after # regLog[i].before) =>
            LET last == LastImportIdx(regLog[i].before)
            IN /\ last > 0
               /\ Len(regLog[i].after) = Len(regLog[i].before) + 1
               /\ regLog[i].after[last + 1] = ImportText("", regLog[i].path)
               /\ ImportsOf(regLog[i].before, regLog[i].path) = {}

\* Every registered path has one import statement in modules.go.
OneImportEach ==
    \A i \in DOMAIN regLog :
        regLog[i].err = "" =>
            Cardinality(ImportsOf(modulesGo.lines, regLog[i].path)) = 1

\* C29: RegisterInModulesFile is idempotent, registering a registered path
\* leaves modules.go unchanged, and after any sequence of registrations each
\* registered path has exactly one import line, put directly after the last
\* import line the file had when the path was first registered.
C29_RegisterOnce ==
    RegistrationIdempotent /\ InsertedAfterLastImport /\ OneImportEach

---------------------------------------------------------------------------
(* generateToolset on a file system *)

\* Most toolsets one run generates.
MaxToolsets == 2

\* The files GenerateToolset makes, in its order.
GeneratedFiles ==
    <<[template |-> "toolset.go.tmpl", filename |-> "toolset.go"],
      [template |-> "types.go.tmpl", filename |-> "types.go"],
      [template |-> "client.go.tmpl", filename |-> "client.go"],
      [template |-> "handlers.go.tmpl", filename |-> "handlers.go"],
      [template |-> "schema.go.tmpl", filename |-> "schema.go"],
      [template |-> "doc.go.tmpl", filename |-> "doc.go"]>>

\* Paths are sequences of elements; an absolute path begins with "/".
OutputBase == <<"/", "repo", "pkg">>

ModulesGoPath == <<"/", "repo", "pkg", "mcp", "modules.go">>

\* What the file system holds at a path: a directory, a file that was there
\* before the run, a file made from a template, or modules.go.
Entry(kind, origin, package, operations, lines) ==
    [kind |-> kind, origin |-> origin, Package |-> package,
     Operations |-> operations, lines |-> lines]

OldFile == Entry("file", "old", "", <<>>, <<>>)

ModulesEntry(lines) == Entry("file", "modules.go", "", <<>>, lines)

NoError == <<>>

\* os.MkdirAll
MkdirAll(d, path) ==
    IF path \in DOMAIN d THEN d ELSE d @@ (path :> Entry("dir", "", "", <<>>, <<>>))

\* os.Create and the write, os.WriteFile
WriteAt(d, path, entry) ==
    [p \in DOMAIN d \cup {path} |-> IF p = path THEN entry ELSE d[p]]

\* loadTemplates: the embedded templates, the templates of a directory
\* that has no client.go.tmpl, or a directory ParseGlob finds nothing in.
loadTemplates(templateDir) ==
    LET embedded == {GeneratedFiles[i].template : i \in DOMAIN GeneratedFiles}
    IN CASE templateDir = "" -> [err |-> NoError, templates |-> embedded]
         [] templateDir = "custom" ->
                [err |-> NoError, templates |-> embedded \ {"client.go.tmpl"}]
         [] OTHER -> [err |-> <<"failed to parse templates">>, templates |-> {}]

NewGenerator(config) ==
    LET loaded == loadTemplates(config.TemplateDir)
    IN IF config.OutputDir = <<>>
       THEN [err |-> <<"output directory is required">>, config |-> config, templates |-> {}]
       ELSE IF loaded.err # NoError
       THEN [err |-> <<"failed to load templates">> \o loaded.err,
             config |-> config, templates |-> {}]
       ELSE [err |-> NoError, config |-> config, templates |-> loaded.templates]

\* createTemplateData, the entries that depend on the configuration.
createTemplateData(g, toolsetInfo) ==
    [Package |-> g.config.PackageName,
     Operations |-> GetResourceOperations(toolsetInfo.SelectedOperations)]

\* Writes the file whether it exists or not.
generateFileAlways(d, g, toolsetInfo, file) ==
    LET outputPath == g.config.OutputDir \o <<file.filename>>
        data == createTemplateData(g, toolsetInfo)
    IN IF file.template \notin g.templates
       THEN [disk |-> d, err |-> <<"template not found">>]
       ELSE [disk |-> WriteAt(d, outputPath,
                              Entry("file", file.template, data.Package,
                                    data.Operations, <<>>)),
             err |-> NoError]

generateFile(d, g, toolsetInfo, file) ==
    LET outputPath == g.config.OutputDir \o <<file.filename>>
        data == createTemplateData(g, toolsetInfo)
    IN IF ~g.config.OverwriteFiles /\ outputPath \in DOMAIN d
       THEN [disk |-> d, err |-> <<"file already exists and overwrite is disabled">>]
       ELSE IF file.template \notin g.templates
       THEN [disk |-> d, err |-> <<"template not found">>]
       ELSE [disk |-> WriteAt(d, outputPath,
                              Entry("file", file.template, data.Package,
                                    data.Operations, <<>>)),
             err |-> NoError]

\* The loop of GenerateToolset from file i on: the first error ends it.
RECURSIVE GenerateFiles(_, _, _, _)
GenerateFiles(d, g, toolsetInfo, i) ==
    IF i > Len(GeneratedFiles) THEN [disk |-> d, err |-> NoError]
    ELSE LET r == generateFile(d, g, toolsetInfo, GeneratedFiles[i])
         IN IF r.err # NoError
            THEN [disk |-> r.disk,
                  err |-> <<"failed to generate", GeneratedFiles[i].filename>> \o r.err]
            ELSE GenerateFiles(r.disk, g, toolsetInfo, i + 1)

GenerateToolset(d, g, toolsetInfo) ==
    GenerateFiles(MkdirAll(d, g.config.OutputDir), g, toolsetInfo, 1)

\* DetermineModulesFilePath: pkgIdx is the place of the last "pkg" element
\* of the output directory, 0 when there is none.
DetermineModulesFilePath(d, outputDir, modulesPath) ==
    LET S == {i \in DOMAIN outputDir : outputDir[i] = "pkg"}
        pkgIdx == IF S = {} THEN 0 ELSE CHOOSE i \in S : \A j \in S : j <= i
        inferred == SubSeq(outputDir, 1, pkgIdx - 1) \o <<"pkg", "mcp", "modules.go">>
    IN IF modulesPath # <<>>
       THEN (IF modulesPath[1] # "/"
             THEN [path |-> <<>>, err |-> <<"modules-file path must be absolute">>]
             ELSE [path |-> modulesPath, err |-> NoError])
       ELSE IF pkgIdx = 0
       THEN [path |-> <<>>, err |-> <<"cannot infer modules.go location">>]
       ELSE IF inferred \notin DOMAIN d
       THEN [path |-> <<>>, err |-> <<"modules.go not found at inferred path">>]
       ELSE [path |-> inferred, err |-> NoError]

registerToolsetImport(d, f, packageName, outputDir) ==
    LET mp == DetermineModulesFilePath(d, outputDir, f.modulesFile)
        file == IF mp.path \in DOMAIN d /\ d[mp.path].kind = "file"
                THEN TextFile(TRUE, d[mp.path].lines) ELSE TextFile(FALSE, <<>>)
        r == RegisterInModulesFile(file, ImportPathOf(packageName))
    IN IF mp.err # NoError THEN [disk |-> d, err |-> mp.err]
       ELSE IF r.err # "" THEN [disk |-> d, err |-> <<r.err>>]
       ELSE IF r.file = file THEN [disk |-> d, err |-> NoError]
       ELSE [disk |-> WriteAt(d, mp.path, ModulesEntry(r.file.lines)), err |-> NoError]

\* Goes on to generate and register although --dry-run is given.
generateToolsetIgnoresDryRun(d, f, toolsetInfo, outputDir) ==
    LET genConfig == [OutputDir |-> outputDir, TemplateDir |-> f.templateDir,
                      PackageName |-> toolsetInfo.PackageName,
                      ModulePath |-> ModulePath, OverwriteFiles |-> f.overwrite]
        gen == NewGenerator(genConfig)
        made == GenerateToolset(d, gen, toolsetInfo)
        reg == registerToolsetImport(made.disk, f, toolsetInfo.PackageName, outputDir)
    IN IF gen.err # NoError
       THEN [disk |-> d, err |-> <<"failed to create generator">> \o gen.err]
       ELSE IF made.err # NoError
       THEN [disk |-> made.disk, err |-> <<"failed to generate toolset">> \o made.err]
       ELSE IF f.register /\ reg.err # NoError
       THEN [disk |-> reg.disk, err |-> <<"failed to register toolset">> \o reg.err]
       ELSE IF f.register THEN [disk |-> reg.disk, err |-> NoError]
       ELSE [disk |-> made.disk, err |-> NoError]

\* generateToolset: the file system after the call and the error.
generateToolset(d, f, toolsetInfo, outputDir) ==
    LET genConfig == [OutputDir |-> outputDir, TemplateDir |-> f.templateDir,
                      PackageName |-> toolsetInfo.PackageName,
                      ModulePath |-> ModulePath, OverwriteFiles |-> f.overwrite]
        gen == NewGenerator(genConfig)
        made == GenerateToolset(d, gen, toolsetInfo)
        reg == registerToolsetImport(made.disk, f, toolsetInfo.PackageName, outputDir)
    IN IF gen.err # NoError
       THEN [disk |-> d, err |-> <<"failed to create generator">> \o gen.err]
       ELSE IF f.dryRun THEN [disk |-> d, err |-> NoError]
       ELSE IF made.err # NoError
       THEN [disk |-> made.disk, err |-> <<"failed to generate toolset">> \o made.err]
       ELSE IF f.register /\ reg.err # NoError
       THEN [disk |-> reg.disk, err |-> <<"failed to register toolset">> \o reg.err]
       ELSE IF f.register THEN [disk |-> reg.disk, err |-> NoError]
       ELSE [disk |-> made.disk, err |-> NoError]

\* FileWriter.WriteFile; the formatting does not change what the model
\* keeps of a content.
WriteFile(d, w, filename, content) ==
    LET made == MkdirAll(d, w.outputDir)
        filePath == w.outputDir \o <<filename>>
    IN IF ~w.overwriteFiles /\ filePath \in DOMAIN made
       THEN [disk |-> made, err |-> <<"file already exists and overwrite is disabled">>]
       ELSE [disk |-> WriteAt(made, filePath, content), err |-> NoError]

\* The files of a directory before the run: none, types.go, or all six.
DirectoryStates(dir) ==
    LET with(names) ==
            [p \in {dir} \cup {dir \o <<n>> : n \in names} |->
                IF p = dir THEN Entry("dir", "", "", <<>>, <<>>) ELSE OldFile]
    IN {<<>>, with({"types.go"}),
        with({GeneratedFiles[i].filename : i \in DOMAIN GeneratedFiles})}

\* What is on disk before a run: the two output directories, and modules.go,
\* which is not there, has no import, one import, or the import of widgets.
Disks ==
    LET core == ImportText("", <<ModulePath, "pkg", "core">>)
        modulesStates ==
            {<<>>,
             ModulesGoPath :> ModulesEntry(<<PackageClause>>),
             ModulesGoPath :> ModulesEntry(<<PackageClause, core>>),
             ModulesGoPath :> ModulesEntry(<<PackageClause, core,
                                             ImportText("", ImportPathOf("widgets"))>>)}
    IN {a @@ b @@ m : a \in DirectoryStates(<<"/", "repo", "pkg", "widgets">>),
                      b \in DirectoryStates(<<"/", "tmp", "out">>),
                      m \in modulesStates}

\* The output directory of the call for toolset i.
OutDirOf(i) ==
    IF genMode = "single" THEN genFlags.outputDir
    ELSE genFlags.outputBase \o <<toolsets[i].PackageName>>

\* A run begins: its flags, what is on disk, and the toolsets it will
\* generate, one in single-CRD mode.  SelectedOperations is what the command
\* makes of --crud, or what a caller of the library sets.
GenStart ==
    /\ genPc = "start"
    /\ \E mode \in {"single", "dir"},
          f \in [dryRun : BOOLEAN, overwrite : BOOLEAN, register : BOOLEAN,
                 modulesFile : {<<>>, <<"modules.go">>, ModulesGoPath},
                 templateDir : {"", "custom", "nodir"},
                 outputDir : {<<>>}, outputBase : {<<>>}],
          selected \in {<<>>, <<"create", "get">>, <<"invalid">>},
          d \in Disks, n \in 1..MaxToolsets :
          /\ mode = "single" => n = 1
          /\ genMode' = mode
          /\ \E out \in {<<"/", "repo", "pkg", "widgets">>, <<"/", "tmp", "out">>} :
                genFlags' = IF mode = "single"
                            THEN [f EXCEPT !.outputDir = out]
                            ELSE [f EXCEPT !.outputBase = OutputBase]
          /\ \E ts \in [1..n -> [PackageName : Packages, SelectedOperations : {selected}]] :
                toolsets' = ts
          /\ disk' = d
          /\ disk0' = d
    /\ genIdx' = 1
    /\ genLog' = <<>>
    /\ genPc' = "running"
    /\ UNCHANGED <<crudVars, crdVars, schemaVars, walkVars, nameVars, runVars,
                   caseVars, regVars>>

\* A program that writes files with a FileWriter begins.
WriterStart ==
    /\ genPc = "start"
    /\ \E overwriteFiles \in BOOLEAN, d \in Disks, n \in 1..MaxToolsets :
          /\ genMode' = "writer"
          /\ genFlags' = [genFlags EXCEPT !.overwrite = overwriteFiles,
                                           !.outputBase = OutputBase]
          /\ \E ts \in [1..n -> [PackageName : Packages, SelectedOperations : {<<>>}]] :
                toolsets' = ts
          /\ disk' = d
          /\ disk0' = d
    /\ genIdx' = 1
    /\ genLog' = <<>>
    /\ genPc' = "running"
    /\ UNCHANGED <<crudVars, crdVars, schemaVars, walkVars, nameVars, runVars,
                   caseVars, regVars>>

\* generateToolset for the next toolset; in directory mode its error is a
\* warning, in single-CRD mode it is what the run returns.
GenerateToolsetCall ==
    /\ genPc = "running"
    /\ genMode \in {"single", "dir"}
    /\ genIdx <= Len(toolsets)
    /\ LET r == generateToolset(disk, genFlags, toolsets[genIdx], OutDirOf(genIdx)) IN
       /\ disk' = r.disk
       /\ genLog' = Append(genLog, r.err)
    /\ genIdx' = genIdx + 1
    /\ UNCHANGED <<genFlags, genMode, toolsets, disk0, genPc>>
    /\ UNCHANGED <<crudVars, crdVars, schemaVars, walkVars, nameVars, runVars,
                   caseVars, regVars>>

\* FileWriter.WriteFile of types.go for the next toolset.
WriteFileCall ==
    /\ genPc = "running"
    /\ genMode = "writer"
    /\ genIdx <= Len(toolsets)
    /\ LET w == [outputDir |-> OutDirOf(genIdx), overwriteFiles |-> genFlags.overwrite]
           r == WriteFile(disk, w, "types.go",
                          Entry("file", "written", toolsets[genIdx].PackageName, <<>>, <<>>))
       IN /\ disk' = r.disk
          /\ genLog' = Append(genLog, r.err)
    /\ genIdx' = genIdx + 1
    /\ UNCHANGED <<genFlags, genMode, toolsets, disk0, genPc>>
    /\ UNCHANGED <<crudVars, crdVars, schemaVars, walkVars, nameVars, runVars,
                   caseVars, regVars>>

GenFinish ==
    /\ genPc = "running"
    /\ genIdx > Len(toolsets)
    /\ genPc' = "done"
    /\ UNCHANGED <<genFlags, genMode, toolsets, disk, disk0, genIdx, genLog>>
    /\ UNCHANGED <<crudVars, crdVars, schemaVars, walkVars, nameVars, runVars,
                   caseVars, regVars>>

NextGen == GenStart \/ WriterStart \/ GenerateToolsetCall \/ WriteFileCall \/ GenFinish

---------------------------------------------------------------------------
(* Claims about generateToolset *)

AlreadyExists == <<"file already exists and overwrite is disabled">>

\* The paths of the files the call for toolset i writes.
ArtifactPaths(i) ==
    IF genMode = "writer" THEN {OutDirOf(i) \o <<"types.go">>}
    ELSE {OutDirOf(i) \o <<GeneratedFiles[k].filename>> : k \in DOMAIN GeneratedFiles}

\* No path that was on disk before the run holds anything else now.
Untouched(paths) == \A p \in paths : p \in DOMAIN disk /\ disk[p] = disk0[p]

\* C24, as stated: with overwrite disabled no run changes the content of a
\* file that existed before the run.
C24_NoExistingFileChanged == ~genFlags.overwrite => Untouched(DOMAIN disk0)

\* C24, amended: with overwrite disabled no run changes a file that existed
\* before the run other than modules.go, which --register rewrites; a call
\* that comes to write such a file fails with 'already exists and overwrite
\* is disabled', and no call over such a file succeeds.
C24_NoExistingArtifactChanged ==
    ~genFlags.overwrite =>
        /\ Untouched(DOMAIN disk0 \ {ModulesGoPath})
        /\ (~genFlags.register => Untouched(DOMAIN disk0))
        /\ \A i \in DOMAIN genLog :
               /\ (genLog[i] = NoError /\ ~genFlags.dryRun)
                      => ArtifactPaths(i) \cap DOMAIN disk0 = {}
               /\ (/\ genMode # "writer"
                   /\ ~genFlags.dryRun
                   /\ genFlags.templateDir # "nodir"
                   /\ OutDirOf(i) \o <<GeneratedFiles[1].filename>> \in DOMAIN disk0)
                      => genLog[i] = <<"failed to generate toolset", "failed to generate",
                                       GeneratedFiles[1].filename>> \o AlreadyExists
               /\ (genMode = "writer" /\ ArtifactPaths(i) \cap DOMAIN disk0 # {})
                      => genLog[i] = AlreadyExists

\* A run in directory mode without --overwrite has ended: types.go of the
\* first package was there before and is as it was, the call failed at it
\* after it made toolset.go, and the second package was generated.
C24_Witness ==
    /\ genPc = "done"
    /\ genMode = "dir"
    /\ ~genFlags.overwrite /\ ~genFlags.dryRun
    /\ Len(genLog) = 2
    /\ toolsets[1].PackageName = "widgets"
    /\ OutputBase \o <<"widgets", "types.go">> \in DOMAIN disk0
    /\ OutputBase \o <<"widgets", "toolset.go">> \notin DOMAIN disk0
    /\ OutputBase \o <<"widgets", "toolset.go">> \in DOMAIN disk
    /\ disk[OutputBase \o <<"widgets", "types.go">>] = OldFile
    /\ genLog[1] = <<"failed to generate toolset", "failed to generate", "types.go">>
                       \o AlreadyExists
    /\ genLog[2] = NoError

\* C25: with --dry-run a run creates and modifies no file, in single-CRD
\* mode and in directory mode: no artifact is written and modules.go is as
\* it was.
C25_DryRunWritesNothing ==
    (genMode \in {"single", "dir"} /\ genFlags.dryRun) => disk = disk0

\* A dry run in directory mode over two packages with --overwrite and
\* --register has ended without an error; modules.go is on disk and nothing
\* of the first package is.
C25_Witness ==
    /\ genPc = "done"
    /\ genMode = "dir"
    /\ genFlags.dryRun /\ genFlags.overwrite /\ genFlags.register
    /\ genFlags.templateDir = ""
    /\ genLog = <<NoError, NoError>>
    /\ ModulesGoPath \in DOMAIN disk0
    /\ OutputBase \o <<toolsets[1].PackageName>> \notin DOMAIN disk0

\* C28: the operations handed to the templates are among create, get, list,
\* update and delete, whatever SelectedOperations names, and a name that is
\* none of them does not make the generation fail.
C28_OnlyKnownOperations ==
    \A p \in DOMAIN disk :
        disk[p].kind = "file" => Range(disk[p].Operations) \subseteq Range(AllOperations)

---------------------------------------------------------------------------
(* More claims about the analyzer and the run *)

\* The tag generateJSONTag makes for an optional field of this name.
OmitemptyTag(fieldName) == Str_json \o fieldName \o Str_omitempty \o <<"\"">>

\* C27: in every node AnalyzeSchema returns, the JSON tag carries
\* ',omitempty' exactly when Required is false.
C27_OmitemptyIffOptional ==
    \A id \in DOMAIN heap :
        (heap[id].JSONTag = OmitemptyTag(heap[id].JSONName)) <=> ~heap[id].Required

\* C30: generateFromDirectory returns success whenever it finds a file, even
\* if every file fails to parse, analyze or generate; it returns an error
\* only when the walk fails or no file is found.
C30_DirectorySucceeds ==
    (flags.crdDir # "" /\ validateFlags(flags) = "" /\ Finished) =>
        IF flags.crdDir = "nodir" THEN runPc = "done" /\ runErr = "failed to find CRD files"
        ELSE IF Len(files) = 0
        THEN runPc = "done" /\ runErr = "no CRD files found in directory"
        ELSE runPc = "done" /\ runErr = ""

---------------------------------------------------------------------------
\* The state before any operation.
Init ==
    \* the operation selector
    \* The --crud flag defaults to "crud"; DefaultGenerationConfig selects nothing.
    /\ crudOperations = <<"c", "r", "u", "d">>
    /\ crudPc = "start"
    /\ crudErr = [kind |-> "none", char |-> ""]
    /\ selectedOps = <<>>
    /\ resourceOps = <<>>
    /\ opsQueried = FALSE
    \* the CRD analyzer
    /\ crd = <<>>
    /\ crdPc = "none"
    /\ crdInfo = <<>>
    /\ toolset = <<>>
    \* the schema analyzer
    \* NewSchemaAnalyzer
    /\ heap = <<>>
    /\ typeCache = EmptyMap
    /\ calls = <<>>
    /\ structFields = <<>>
    /\ rendered = <<>>
    \* the call stack
    /\ walkGraph = <<>>
    /\ walkStack = <<>>
    /\ walkCache = {}
    /\ walkPc = "idle"
    \* the name helpers
    /\ word = <<>>
    /\ plural = <<>>
    /\ singular = <<>>
    /\ namePc = "idle"
    \* the run
    \* The flags as cobra leaves them before any is given.
    /\ flags = [crdFile |-> "", crdDir |-> "", outputDir |-> "", outputBase |-> "",
                modulePath |-> "github.com/example/project",
                crud |-> <<"c", "r", "u", "d">>, generateDocResource |-> ""]
    /\ files = <<>>
    /\ runPc = "start"
    /\ runIdx = 0
    /\ runLog = <<>>
    /\ runErr = ""
    \* the case conversions
    /\ ident = <<>>
    /\ conv = <<>>
    /\ reconv = <<>>
    /\ genNames = <<>>
    \* generateToolset: the flags as cobra leaves them, and an empty disk
    /\ genFlags = [dryRun |-> FALSE, overwrite |-> FALSE, register |-> FALSE,
                   modulesFile |-> <<>>, templateDir |-> "",
                   outputDir |-> <<>>, outputBase |-> <<>>]
    /\ genMode = "single"
    /\ toolsets = <<>>
    /\ disk = <<>>
    /\ disk0 = <<>>
    /\ genIdx = 0
    /\ genLog = <<>>
    /\ genPc = "start"
    \* RegisterInModulesFile: no file is open
    /\ modulesGo = TextFile(FALSE, <<>>)
    /\ regLog = <<>>

SpecSchema == Init /\ [][NextSchema]_vars

SpecAnalyzer == Init /\ [][NextAnalyzer]_vars

SpecCrud == Init /\ [][NextCrud]_vars

SpecCRD == Init /\ [][NextCRD]_vars

SpecWalk == Init /\ [][NextWalk]_vars

SpecNames == Init /\ [][NextNames]_vars

SpecRun == Init /\ [][NextRun]_vars

SpecCase == Init /\ [][NextCase]_vars

SpecGen == Init /\ [][NextGen]_vars

SpecRegister == Init /\ [][NextRegister]_vars

=============================================================================
